---- MODULE Spec2Model ----
(***************************************************************************)
(* Entitlement ledger and payment reconciliation of the Resolver bot:      *)
(* invoice issuance, pre_checkout validation, successful_payment           *)
(* reconciliation and the entitlement projections read from the ledger     *)
(* tables (app/handlers.py, app/db.py, app/pricing.py).                    *)
(***************************************************************************)
EXTENDS Integers, Sequences, FiniteSets, TLC

(***************************************************************************)
(* Bounds and input sets                                                   *)
(***************************************************************************)
\* how far along TimeLine the clock may advance
MaxClock == 5

\* the identifiers generate_invoice_id may return
InvoiceIds == {"inv-a", "inv-b"}
\* invoice_payload values the platform may present ("inv-x" is never issued)
Payloads == InvoiceIds \cup {"inv-x"}
Users == {42, 7}
Groups == {-100}
\* telegram_payment_charge_id values ("" is the empty charge id)
ChargeIds == {"", "chg-1", "chg-2"}
\* what the platform reports as paid: currency and total_amount in its minor unit
PaidForms == {[currency |-> "XTR", total_amount |-> 50],
              [currency |-> "XTR", total_amount |-> 150],
              [currency |-> "USD", total_amount |-> 5000]}
\* the users who press a purchase button; every user of Users may pay
Buyers == {42}

(***************************************************************************)
(* Program constants                                                       *)
(***************************************************************************)
SECONDS_PER_DAY == 86400
INVOICE_TTL_SECONDS == 86400
\* SQL NULL in an INTEGER column (end_ts) and in a TEXT column (telegram_charge_id)
NULL_TS == -1
NULL == "<NULL>"

\* the instants the clock visits, in order
TimeLine == <<0, INVOICE_TTL_SECONDS, INVOICE_TTL_SECONDS + 1,
              29 * SECONDS_PER_DAY, 30 * SECONDS_PER_DAY,
              30 * SECONDS_PER_DAY + 1, 31 * SECONDS_PER_DAY,
              31 * SECONDS_PER_DAY + 1>>
TimePoints == {TimeLine[k] : k \in 1..MaxClock}

(***************************************************************************)
(* Plan catalog (app/pricing.py)                                           *)
(***************************************************************************)
PERSONAL_PLANS ==
    [personal_monthly  |-> [id |-> "personal_monthly",  stars |-> 50,   resolves |-> 1],
     personal_yearly   |-> [id |-> "personal_yearly",   stars |-> 450,  resolves |-> 5],
     personal_lifetime |-> [id |-> "personal_lifetime", stars |-> 1000, resolves |-> 15]]

GROUP_PLANS ==
    [group_monthly |-> [id |-> "group_monthly", stars |-> 150,  duration_days |-> 30],
     group_yearly  |-> [id |-> "group_yearly",  stars |-> 1500, duration_days |-> 365],
     group_charter |-> [id |-> "group_charter", stars |-> 4000, duration_days |-> NULL_TS]]

RAG_ADDON_PLANS ==
    [rag_monthly |-> [id |-> "rag_monthly", stars |-> 50, duration_days |-> 30]]

\* the plans the purchase buttons of this model offer
PersonalOffers == {"personal_monthly"}
GroupOffers == {"group_monthly"}
RagOffers == {"rag_monthly"}

(***************************************************************************)
(* Plan keys stored in invoices.plan_id                                    *)
(***************************************************************************)
build_personal_plan_key(plan_id) ==
    [category |-> "personal", plan_id |-> plan_id, group_id |-> 0]

build_group_plan_key(plan_id, group_id) ==
    [category |-> "group", plan_id |-> plan_id, group_id |-> group_id]

build_rag_plan_key(plan_id, group_id) ==
    [category |-> "rag", plan_id |-> plan_id, group_id |-> group_id]

\* each parser answers None (ok = FALSE) for a key of another category
parse_group_plan_key(key) ==
    [ok |-> key.category = "group", plan_id |-> key.plan_id, group_id |-> key.group_id]

parse_rag_plan_key(key) ==
    [ok |-> key.category = "rag", plan_id |-> key.plan_id, group_id |-> key.group_id]

parse_personal_plan_key(key) ==
    [ok |-> key.category = "personal", plan_id |-> key.plan_id]

(***************************************************************************)
(* State                                                                   *)
(***************************************************************************)
VARIABLES
    now,                  \* time.time(), epoch seconds
    invoices,             \* table invoices: a set of rows, invoice_id the primary key
    users,                \* table users: user_id -> row (exists, resolves_remaining)
    groups,               \* table groups: the group_id values that have a row
    purchases,            \* table purchases, in insertion (id) order
    group_subscriptions,  \* table group_subscriptions, in insertion (id) order
    rag_subscriptions,    \* the add-on subscription table, in insertion (id) order
    last,                 \* the answer of the handler that ran last
    paidLog,              \* history: the arguments of every successful_payment answered "processed"
    proc,                 \* the successful_payment calls in flight, one per worker process
    free_used_date,       \* column users.free_used_date: user_id -> day number, NULL_TS for NULL
    interactions,         \* table interactions, in insertion (id) order
    retry_flags,          \* table retry_flags: user_id -> the two flags of the row
    consumed,             \* history: user_id -> the consume_paid_resolve calls that answered True
    user_cache,           \* RateLimitMiddleware.user_cache: user_id -> the entry stored last
    handled               \* history: the messages RateLimitMiddleware passed on, with their time

dbVars == <<invoices, users, groups, purchases, group_subscriptions, rag_subscriptions>>
ledgerVars == <<purchases, group_subscriptions, rag_subscriptions>>
textVars == <<free_used_date, interactions, retry_flags, consumed, user_cache, handled>>
vars == <<now, invoices, users, groups, purchases, group_subscriptions,
          rag_subscriptions, last, paidLog, proc, free_used_date, interactions,
          retry_flags, consumed, user_cache, handled>>

NoAnswer == [op |-> "none", outcome |-> "", reason |-> "", message |-> "", repeat |-> FALSE]

\* worker processes that share the database file
Procs == {"p1", "p2"}

\* the retry_flags row _ensure_user_conn inserts, and what get_retry_flags
\* answers without a row
NoFlags == [last_resolve_was_paid |-> FALSE, free_retry_available |-> FALSE]

\* user_cache without a live entry of the user
NoEntry == [count |-> 0, first_request |-> 0, expires |-> 0]

\* resolves_remaining and free_retry are what a handler read with db.get_user and
\* db.get_retry_flags and still holds in its locals
Idle ==
    [pc |-> "idle", invoice_id |-> "", from_user |-> 0, total_amount |-> 0,
     currency |-> "", charge |-> "", start_ts |-> 0, status |-> "",
     resolves_remaining |-> 0, free_retry |-> FALSE]

Init ==
    /\ now = 0
    /\ invoices = {}
    /\ users = [u \in Users |-> [exists |-> FALSE, resolves_remaining |-> 0]]
    /\ groups = {}
    /\ purchases = <<>>
    /\ group_subscriptions = <<>>
    /\ rag_subscriptions = <<>>
    /\ last = NoAnswer
    /\ paidLog = <<>>
    /\ proc = [p \in Procs |-> Idle]
    /\ free_used_date = [u \in Users |-> NULL_TS]
    /\ interactions = <<>>
    /\ retry_flags = [u \in Users |-> NoFlags]
    /\ consumed = [u \in Users |-> 0]
    /\ user_cache = [u \in Users |-> NoEntry]
    /\ handled = <<>>

(***************************************************************************)
(* Persistence layer (app/db.py)                                           *)
(***************************************************************************)
NoInvoice ==
    [invoice_id |-> "", user_id |-> 0, plan_id |-> build_personal_plan_key(""),
     amount |-> 0, currency |-> "", status |-> "none", created_at |-> 0,
     telegram_charge_id |-> NULL]

InvoiceRows(invoice_id) == {r \in invoices : r.invoice_id = invoice_id}

\* SELECT * FROM invoices WHERE invoice_id = ?  (NoInvoice stands for None)
get_invoice(invoice_id) ==
    IF InvoiceRows(invoice_id) = {} THEN NoInvoice
    ELSE CHOOSE r \in InvoiceRows(invoice_id) : TRUE

\* the row INSERT OR IGNORE INTO invoices writes
NewInvoiceRow(invoice_id, user_id, plan_id, amount, currency) ==
    [invoice_id |-> invoice_id, user_id |-> user_id, plan_id |-> plan_id,
     amount |-> amount, currency |-> currency, status |-> "created",
     created_at |-> now, telegram_charge_id |-> NULL]

\* create_invoice answers rowcount == 1: the primary key ignores a second row
create_invoice_ok(invoice_id) == InvoiceRows(invoice_id) = {}

\* ensure_user_row as INSERT OR REPLACE: an existing row is reset to balance 0
ensure_user_row_Replace(tbl, user_id) ==
    [tbl EXCEPT ![user_id] = [exists |-> TRUE, resolves_remaining |-> 0]]

\* ensure_user_row with a new row that starts with one resolve
ensure_user_row_Bonus(tbl, user_id) ==
    IF tbl[user_id].exists THEN tbl
    ELSE [tbl EXCEPT ![user_id] = [exists |-> TRUE, resolves_remaining |-> 1]]

\* _ensure_user_conn without names: insert the row with balance 0 when missing
ensure_user_row(tbl, user_id) ==
    IF tbl[user_id].exists THEN tbl
    ELSE [tbl EXCEPT ![user_id] = [exists |-> TRUE, resolves_remaining |-> 0]]

\* INSERT OR IGNORE INTO groups (group_id)
ensure_group_row(tbl, group_id) == tbl \cup {group_id}

\* SELECT 1 FROM invoices WHERE telegram_charge_id = ?
ChargeOnInvoice(charge) == \E r \in invoices : r.telegram_charge_id = charge

\* SELECT 1 FROM <ledger table> WHERE transaction_id = ?
ChargeInLedger(tbl, charge) == \E k \in 1..Len(tbl) : tbl[k].transaction_id = charge

\* SELECT status FROM invoices WHERE invoice_id = ?  and the test on it
InvoiceIsCreated(invoice_id) == get_invoice(invoice_id).status = "created"

\* ChargeUniqueViolation without the UNIQUE index on invoices.telegram_charge_id
ChargeUniqueViolation_Off(invoice_id, charge) == FALSE

\* UNIQUE(telegram_charge_id): the UPDATE fails when another row holds the value
ChargeUniqueViolation(invoice_id, charge) ==
    \E r \in invoices : r.invoice_id # invoice_id /\ r.telegram_charge_id = charge

\* MarkPaid by an UPDATE that sets the charge id and leaves the status 'created'
MarkPaid_NoStatus(invoice_id, charge) ==
    {IF r.invoice_id = invoice_id /\ r.status = "created"
       THEN [r EXCEPT !.telegram_charge_id = charge]
       ELSE r : r \in invoices}

\* MarkPaid by an UPDATE that sets the status and leaves the charge id NULL
MarkPaid_NoCharge(invoice_id, charge) ==
    {IF r.invoice_id = invoice_id /\ r.status = "created"
       THEN [r EXCEPT !.status = "paid"]
       ELSE r : r \in invoices}

\* UPDATE invoices SET status = 'paid', telegram_charge_id = ?
\*   WHERE invoice_id = ? AND status = 'created'
MarkPaid(invoice_id, charge) ==
    {IF r.invoice_id = invoice_id /\ r.status = "created"
       THEN [r EXCEPT !.status = "paid", !.telegram_charge_id = charge]
       ELSE r : r \in invoices}

\* UpdateRowCount of an UPDATE whose WHERE does not test the status
UpdateRowCount_AnyStatus(invoice_id) ==
    Cardinality({r \in invoices : r.invoice_id = invoice_id})

UpdateRowCount(invoice_id) ==
    Cardinality({r \in invoices : r.invoice_id = invoice_id /\ r.status = "created"})

\* the value of a db call that wrote nothing (or was rolled back)
Unchanged(status) ==
    [status |-> status, invoices |-> invoices, users |-> users,
     purchases |-> purchases, group_subscriptions |-> group_subscriptions,
     rag_subscriptions |-> rag_subscriptions]

\* AddResolves by an UPDATE that adds the resolves twice
AddResolves_Twice(tbl, user_id, resolves_added) ==
    IF tbl[user_id].exists
      THEN [tbl EXCEPT ![user_id].resolves_remaining = @ + 2 * resolves_added]
      ELSE tbl

\* UPDATE users SET resolves_remaining = resolves_remaining + ? WHERE user_id = ?
AddResolves(tbl, user_id, resolves_added) ==
    IF tbl[user_id].exists
      THEN [tbl EXCEPT ![user_id].resolves_remaining = @ + resolves_added]
      ELSE tbl

PurchaseRow(user_id, stars_amount, resolves_added, charge) ==
    [user_id |-> user_id, stars_amount |-> stars_amount,
     resolves_added |-> resolves_added, transaction_id |-> charge]

SubscriptionRow(group_id, plan_id, stars_amount, charge, start_ts, end_ts) ==
    [group_id |-> group_id, plan_id |-> plan_id, status |-> "active",
     start_ts |-> start_ts, end_ts |-> end_ts, stars_amount |-> stars_amount,
     transaction_id |-> charge]

\* process_invoice_payment from the conditional UPDATE to the commit
PersonalWrite(invoice_id, charge, user_id, stars_amount, resolves_added) ==
    IF UpdateRowCount(invoice_id) # 1 THEN Unchanged("invalid")
    ELSE IF ChargeUniqueViolation(invoice_id, charge) THEN Unchanged("error")
    ELSE IF ChargeInLedger(purchases, charge)
      THEN [Unchanged("duplicate") EXCEPT
              !.invoices = MarkPaid(invoice_id, charge),
              !.users = ensure_user_row(users, user_id)]
      ELSE [Unchanged("processed") EXCEPT
              !.invoices = MarkPaid(invoice_id, charge),
              !.users = AddResolves(ensure_user_row(users, user_id), user_id, resolves_added),
              !.purchases = Append(purchases,
                  PurchaseRow(user_id, stars_amount, resolves_added, charge))]

process_invoice_payment(invoice_id, charge, user_id, stars_amount, resolves_added) ==
    IF charge = "" THEN Unchanged("invalid")
    ELSE IF ChargeOnInvoice(charge) THEN Unchanged("duplicate")
    ELSE IF ChargeInLedger(purchases, charge) THEN Unchanged("duplicate")
    ELSE IF ~InvoiceIsCreated(invoice_id) THEN Unchanged("invalid")
    ELSE PersonalWrite(invoice_id, charge, user_id, stars_amount, resolves_added)

\* GroupWrite that closes the group's earlier rows when it inserts the new one
GroupWrite_Supersede(invoice_id, charge, group_id, plan_id, stars_amount, start_ts, end_ts) ==
    IF UpdateRowCount(invoice_id) # 1 THEN Unchanged("invalid")
    ELSE IF ChargeUniqueViolation(invoice_id, charge) THEN Unchanged("error")
    ELSE IF ChargeInLedger(group_subscriptions, charge)
      THEN [Unchanged("duplicate") EXCEPT !.invoices = MarkPaid(invoice_id, charge)]
      ELSE [Unchanged("processed") EXCEPT
              !.invoices = MarkPaid(invoice_id, charge),
              !.group_subscriptions = Append(
                  [k \in 1..Len(group_subscriptions) |->
                      IF group_subscriptions[k].group_id = group_id
                        THEN [group_subscriptions[k] EXCEPT !.status = "replaced"]
                        ELSE group_subscriptions[k]],
                  SubscriptionRow(group_id, plan_id, stars_amount, charge, start_ts, end_ts))]

\* process_group_invoice_payment from the conditional UPDATE to the commit
GroupWrite(invoice_id, charge, group_id, plan_id, stars_amount, start_ts, end_ts) ==
    IF UpdateRowCount(invoice_id) # 1 THEN Unchanged("invalid")
    ELSE IF ChargeUniqueViolation(invoice_id, charge) THEN Unchanged("error")
    ELSE IF ChargeInLedger(group_subscriptions, charge)
      THEN [Unchanged("duplicate") EXCEPT !.invoices = MarkPaid(invoice_id, charge)]
      ELSE [Unchanged("processed") EXCEPT
              !.invoices = MarkPaid(invoice_id, charge),
              !.group_subscriptions = Append(group_subscriptions,
                  SubscriptionRow(group_id, plan_id, stars_amount, charge, start_ts, end_ts))]

process_group_invoice_payment(invoice_id, charge, group_id, plan_id, stars_amount, start_ts, end_ts) ==
    IF charge = "" THEN Unchanged("invalid")
    ELSE IF ChargeOnInvoice(charge) THEN Unchanged("duplicate")
    ELSE IF ChargeInLedger(group_subscriptions, charge) THEN Unchanged("duplicate")
    ELSE IF ~InvoiceIsCreated(invoice_id) THEN Unchanged("invalid")
    ELSE GroupWrite(invoice_id, charge, group_id, plan_id, stars_amount, start_ts, end_ts)

\* the add-on counterpart of process_group_invoice_payment, on the add-on table
RagWrite(invoice_id, charge, group_id, plan_id, stars_amount, start_ts, end_ts) ==
    IF UpdateRowCount(invoice_id) # 1 THEN Unchanged("invalid")
    ELSE IF ChargeUniqueViolation(invoice_id, charge) THEN Unchanged("error")
    ELSE IF ChargeInLedger(rag_subscriptions, charge)
      THEN [Unchanged("duplicate") EXCEPT !.invoices = MarkPaid(invoice_id, charge)]
      ELSE [Unchanged("processed") EXCEPT
              !.invoices = MarkPaid(invoice_id, charge),
              !.rag_subscriptions = Append(rag_subscriptions,
                  SubscriptionRow(group_id, plan_id, stars_amount, charge, start_ts, end_ts))]

process_rag_invoice_payment(invoice_id, charge, group_id, plan_id, stars_amount, start_ts, end_ts) ==
    IF charge = "" THEN Unchanged("invalid")
    ELSE IF ChargeOnInvoice(charge) THEN Unchanged("duplicate")
    ELSE IF ChargeInLedger(rag_subscriptions, charge) THEN Unchanged("duplicate")
    ELSE IF ~InvoiceIsCreated(invoice_id) THEN Unchanged("invalid")
    ELSE RagWrite(invoice_id, charge, group_id, plan_id, stars_amount, start_ts, end_ts)

\* WHERE status = 'active' AND (end_ts IS NULL OR end_ts > now)
RowOpen(row, t) == row.status = "active" /\ (row.end_ts = NULL_TS \/ row.end_ts > t)

\* group_subscription_active without the test of end_ts
group_subscription_active_AnyEnd(group_id) ==
    \E k \in 1..Len(group_subscriptions) :
        /\ group_subscriptions[k].group_id = group_id
        /\ group_subscriptions[k].status = "active"

\* group_subscription_active: some row of the group is active and unexpired
group_subscription_active(group_id) ==
    \E k \in 1..Len(group_subscriptions) :
        group_subscriptions[k].group_id = group_id /\ RowOpen(group_subscriptions[k], now)

\* LatestRows of a query ORDER BY start_ts ASC: the rows no other row starts before
LatestRows_Oldest(group_id) ==
    {k \in 1..Len(group_subscriptions) :
        /\ group_subscriptions[k].group_id = group_id
        /\ \A j \in 1..Len(group_subscriptions) :
              group_subscriptions[j].group_id = group_id =>
                group_subscriptions[j].start_ts >= group_subscriptions[k].start_ts}

\* get_group_subscription_info reads the row ORDER BY start_ts DESC LIMIT 1: the
\* rows of the group that no other row of the group starts after (SQL leaves the
\* order of rows with equal start_ts open)
LatestRows(group_id) ==
    {k \in 1..Len(group_subscriptions) :
        /\ group_subscriptions[k].group_id = group_id
        /\ \A j \in 1..Len(group_subscriptions) :
              group_subscriptions[j].group_id = group_id =>
                group_subscriptions[j].start_ts <= group_subscriptions[k].start_ts}

\* the dict get_group_subscription_info builds from the row it read
InfoOfRow(row, t) ==
    [active |-> row.status = "active" /\ (row.end_ts = NULL_TS \/ row.end_ts > t),
     end_ts |-> row.end_ts, plan_id |-> row.plan_id]

NO_SUBSCRIPTION_INFO == [active |-> FALSE, end_ts |-> NULL_TS, plan_id |-> NULL]

\* get_group_subscription_info: every dict the call may return in this state
get_group_subscription_info(group_id) ==
    IF LatestRows(group_id) = {} THEN {NO_SUBSCRIPTION_INFO}
    ELSE {InfoOfRow(group_subscriptions[k], now) : k \in LatestRows(group_id)}

(***************************************************************************)
(* Handlers (app/handlers.py)                                              *)
(***************************************************************************)
\* group_rag_subscription_active: the rule of group_subscription_active on the
\* rows of the add-on table
group_rag_subscription_active(group_id) ==
    \E k \in 1..Len(rag_subscriptions) :
        rag_subscriptions[k].group_id = group_id /\ RowOpen(rag_subscriptions[k], now)

\* require_group_entitlement: what gates the moderation features of a group
require_group_entitlement(group_id) == group_subscription_active(group_id)

\* require_group_rag_entitlement: what gates the add-on features of a group
require_group_rag_entitlement(group_id) ==
    group_subscription_active(group_id) /\ group_rag_subscription_active(group_id)

GENERIC_REJECT == "Invoice expired or invalid. Please try again."
RAG_REJECT == "Group subscription required for RAG."
ERROR_REJECT == "Payment validation failed"

_should_allow_xtr_amount(plan_stars, amount, currency) ==
    ~(currency = "XTR" /\ plan_stars < 1000 /\ amount >= 1000)

_amount_from_total(total_amount, currency) ==
    IF currency = "XTR" THEN total_amount ELSE total_amount \div 100

\* Expired with >= for >
Expired_Inclusive(invoice, t) == t - invoice.created_at >= INVOICE_TTL_SECONDS

\* now - int(invoice["created_at"]) > INVOICE_TTL_SECONDS
Expired(invoice, t) == t - invoice.created_at > INVOICE_TTL_SECONDS

\* not plan or plan.stars != amount, negated
PlanPriceIs(catalog, plan_id, amount) ==
    plan_id \in DOMAIN catalog /\ catalog[plan_id].stars = amount

\* EndTs that counts the days as hours
EndTs_Hours(plan, start_ts) ==
    IF plan.duration_days = NULL_TS THEN NULL_TS
    ELSE start_ts + plan.duration_days * 3600

\* EndTs that takes a missing duration for zero days
EndTs_NullAsZero(plan, start_ts) ==
    IF plan.duration_days = NULL_TS THEN start_ts
    ELSE start_ts + plan.duration_days * SECONDS_PER_DAY

\* start_ts + plan.duration_days * 86400 if plan.duration_days is not None else None
EndTs(plan, start_ts) ==
    IF plan.duration_days = NULL_TS THEN NULL_TS
    ELSE start_ts + plan.duration_days * SECONDS_PER_DAY

\* FirstFree of a loop for _ in range(2): the third id is never tried
FirstFree_Two(ids) ==
    IF create_invoice_ok(ids[1]) THEN 1
    ELSE IF create_invoice_ok(ids[2]) THEN 2
    ELSE 0

\* the first id of the three attempts that create_invoice accepts, 0 when none does
FirstFree(ids) ==
    IF create_invoice_ok(ids[1]) THEN 1
    ELSE IF create_invoice_ok(ids[2]) THEN 2
    ELSE IF create_invoice_ok(ids[3]) THEN 3
    ELSE 0

\* what _create_invoice_record leaves in invoices and returns: up to three
\* generated ids, the first free one is inserted
IssueResult(user_id, plan_key, amount, currency, ids) ==
    IF FirstFree(ids) = 0
      THEN [invoices |-> invoices, outcome |-> "failed", reason |-> "id_collision"]
      ELSE [invoices |-> invoices \cup
                 {NewInvoiceRow(ids[FirstFree(ids)], user_id, plan_key, amount, currency)},
            outcome |-> "issued", reason |-> ids[FirstFree(ids)]]

\* _create_invoice_record as a step: the table and the answer after the call
_create_invoice_record(user_id, plan_key, amount, currency, ids) ==
    LET res == IssueResult(user_id, plan_key, amount, currency, ids)
    IN  /\ invoices' = res.invoices
        /\ last' = [NoAnswer EXCEPT !.op = "issue", !.outcome = res.outcome,
                                    !.reason = res.reason]

IdAttempts == [1..3 -> InvoiceIds]

\* buy_handler that puts one star more than the plan's price on the invoice
buy_handler_Surcharge(user_id, plan_id, ids) ==
    /\ plan_id \in DOMAIN PERSONAL_PLANS
    /\ _should_allow_xtr_amount(PERSONAL_PLANS[plan_id].stars,
                                PERSONAL_PLANS[plan_id].stars + 1, "XTR")
    /\ _create_invoice_record(user_id, build_personal_plan_key(plan_id),
                              PERSONAL_PLANS[plan_id].stars + 1, "XTR", ids)
    /\ UNCHANGED <<now, users, groups, ledgerVars, paidLog, proc, textVars>>

\* buy_handler / cmd_buy: a personal plan button
buy_handler(user_id, plan_id, ids) ==
    /\ plan_id \in DOMAIN PERSONAL_PLANS
    /\ _should_allow_xtr_amount(PERSONAL_PLANS[plan_id].stars,
                                PERSONAL_PLANS[plan_id].stars, "XTR")
    /\ _create_invoice_record(user_id, build_personal_plan_key(plan_id),
                              PERSONAL_PLANS[plan_id].stars, "XTR", ids)
    /\ UNCHANGED <<now, users, groups, ledgerVars, paidLog, proc, textVars>>

\* groupadmin_handler, action buy:<group plan>
groupadmin_buy_group(user_id, group_id, plan_id, ids) ==
    /\ plan_id \in DOMAIN GROUP_PLANS
    /\ _should_allow_xtr_amount(GROUP_PLANS[plan_id].stars, GROUP_PLANS[plan_id].stars, "XTR")
    /\ _create_invoice_record(user_id, build_group_plan_key(plan_id, group_id),
                              GROUP_PLANS[plan_id].stars, "XTR", ids)
    /\ groups' = ensure_group_row(groups, group_id)
    /\ UNCHANGED <<now, users, ledgerVars, paidLog, proc, textVars>>

\* groupadmin_handler, action buy:<add-on plan>: only with an active subscription
groupadmin_buy_rag(user_id, group_id, plan_id, ids) ==
    /\ plan_id \in DOMAIN RAG_ADDON_PLANS
    /\ group_subscription_active(group_id)
    /\ _should_allow_xtr_amount(RAG_ADDON_PLANS[plan_id].stars,
                                RAG_ADDON_PLANS[plan_id].stars, "XTR")
    /\ _create_invoice_record(user_id, build_rag_plan_key(plan_id, group_id),
                              RAG_ADDON_PLANS[plan_id].stars, "XTR", ids)
    /\ groups' = ensure_group_row(groups, group_id)
    /\ UNCHANGED <<now, users, ledgerVars, paidLog, proc, textVars>>

\* PreCheckoutReason without the comparison of the currencies
PreCheckoutReason_NoCurrency(invoice, from_user, total_amount, currency) ==
    IF invoice.status = "none" THEN "unknown_invoice"
    ELSE IF invoice.status # "created" THEN "already_paid"
    ELSE IF invoice.user_id # from_user THEN "payer_mismatch"
    ELSE IF Expired(invoice, now) THEN "expired"
    ELSE IF _amount_from_total(total_amount, currency) # invoice.amount THEN "amount_mismatch"
    ELSE IF parse_group_plan_key(invoice.plan_id).ok
      THEN IF ~PlanPriceIs(GROUP_PLANS, invoice.plan_id.plan_id, invoice.amount)
             THEN "plan_mismatch" ELSE "ok"
    ELSE IF parse_rag_plan_key(invoice.plan_id).ok
      THEN IF ~PlanPriceIs(RAG_ADDON_PLANS, invoice.plan_id.plan_id, invoice.amount)
             THEN "plan_mismatch"
           ELSE IF ~group_subscription_active(invoice.plan_id.group_id)
             THEN "no_subscription" ELSE "ok"
    ELSE IF ~PlanPriceIs(PERSONAL_PLANS, invoice.plan_id.plan_id, invoice.amount)
      THEN "plan_mismatch" ELSE "ok"

\* pre_checkout: the branch taken, as the reason of the answer ("ok" accepts)
PreCheckoutReason(invoice, from_user, total_amount, currency) ==
    IF invoice.status = "none" THEN "unknown_invoice"
    ELSE IF invoice.status # "created" THEN "already_paid"
    ELSE IF invoice.user_id # from_user THEN "payer_mismatch"
    ELSE IF Expired(invoice, now) THEN "expired"
    ELSE IF currency # invoice.currency THEN "currency_mismatch"
    ELSE IF _amount_from_total(total_amount, currency) # invoice.amount THEN "amount_mismatch"
    ELSE IF parse_group_plan_key(invoice.plan_id).ok
      THEN IF ~PlanPriceIs(GROUP_PLANS, invoice.plan_id.plan_id, invoice.amount)
             THEN "plan_mismatch" ELSE "ok"
    ELSE IF parse_rag_plan_key(invoice.plan_id).ok
      THEN IF ~PlanPriceIs(RAG_ADDON_PLANS, invoice.plan_id.plan_id, invoice.amount)
             THEN "plan_mismatch"
           ELSE IF ~group_subscription_active(invoice.plan_id.group_id)
             THEN "no_subscription" ELSE "ok"
    ELSE IF ~PlanPriceIs(PERSONAL_PLANS, invoice.plan_id.plan_id, invoice.amount)
      THEN "plan_mismatch" ELSE "ok"

\* the error_message of pre_checkout_query.answer(ok=False, ...)
PreCheckoutMessage(reason) ==
    IF reason = "ok" THEN ""
    ELSE IF reason = "no_subscription" THEN RAG_REJECT
    ELSE GENERIC_REJECT

pre_checkout(payload, from_user, total_amount, currency) ==
    LET invoice == get_invoice(payload)
        reason == PreCheckoutReason(invoice, from_user, total_amount, currency)
    IN  /\ last' = [op |-> "pre_checkout",
                    outcome |-> IF reason = "ok" THEN "accept" ELSE "reject",
                    reason |-> reason, message |-> PreCheckoutMessage(reason),
                    repeat |-> FALSE]
        /\ groups' = IF reason = "ok" /\ invoice.plan_id.category \in {"group", "rag"}
                       THEN ensure_group_row(groups, invoice.plan_id.group_id)
                       ELSE groups
        /\ users' = IF reason = "ok" /\ invoice.plan_id.category = "personal"
                      THEN ensure_user_row(users, invoice.user_id)
                      ELSE users
        /\ UNCHANGED <<now, invoices, ledgerVars, paidLog, proc, textVars>>

\* PaymentGate with the lifetime tested before the status
PaymentGate_TtlFirst(invoice, from_user, total_amount, currency) ==
    IF invoice.status = "none" THEN "unknown_invoice"
    ELSE IF invoice.user_id # from_user THEN "payer_mismatch"
    ELSE IF Expired(invoice, now) THEN "expired"
    ELSE IF invoice.status # "created" THEN "already_paid"
    ELSE IF _amount_from_total(total_amount, currency) # invoice.amount THEN "amount_mismatch"
    ELSE IF parse_group_plan_key(invoice.plan_id).ok
      THEN IF ~PlanPriceIs(GROUP_PLANS, invoice.plan_id.plan_id,
                           _amount_from_total(total_amount, currency))
             THEN "plan_mismatch" ELSE "go"
    ELSE IF parse_rag_plan_key(invoice.plan_id).ok
      THEN IF ~PlanPriceIs(RAG_ADDON_PLANS, invoice.plan_id.plan_id,
                           _amount_from_total(total_amount, currency))
             THEN "plan_mismatch" ELSE "go"
    ELSE IF invoice.plan_id.plan_id \notin DOMAIN PERSONAL_PLANS
      THEN "plan_mismatch" ELSE "go"

\* PaymentGate without the comparison of the paid amount with invoice.amount
PaymentGate_NoAmount(invoice, from_user, total_amount, currency) ==
    IF invoice.status = "none" THEN "unknown_invoice"
    ELSE IF invoice.user_id # from_user THEN "payer_mismatch"
    ELSE IF invoice.status # "created" THEN "already_paid"
    ELSE IF Expired(invoice, now) THEN "expired"
    ELSE IF parse_group_plan_key(invoice.plan_id).ok
      THEN IF ~PlanPriceIs(GROUP_PLANS, invoice.plan_id.plan_id,
                           _amount_from_total(total_amount, currency))
             THEN "plan_mismatch" ELSE "go"
    ELSE IF parse_rag_plan_key(invoice.plan_id).ok
      THEN IF ~PlanPriceIs(RAG_ADDON_PLANS, invoice.plan_id.plan_id,
                           _amount_from_total(total_amount, currency))
             THEN "plan_mismatch" ELSE "go"
    ELSE IF invoice.plan_id.plan_id \notin DOMAIN PERSONAL_PLANS
      THEN "plan_mismatch" ELSE "go"

\* successful_payment up to the catalog lookup: the branch that answers, or "go"
PaymentGate(invoice, from_user, total_amount, currency) ==
    IF invoice.status = "none" THEN "unknown_invoice"
    ELSE IF invoice.user_id # from_user THEN "payer_mismatch"
    ELSE IF invoice.status # "created" THEN "already_paid"
    ELSE IF Expired(invoice, now) THEN "expired"
    ELSE IF _amount_from_total(total_amount, currency) # invoice.amount THEN "amount_mismatch"
    ELSE IF parse_group_plan_key(invoice.plan_id).ok
      THEN IF ~PlanPriceIs(GROUP_PLANS, invoice.plan_id.plan_id,
                           _amount_from_total(total_amount, currency))
             THEN "plan_mismatch" ELSE "go"
    ELSE IF parse_rag_plan_key(invoice.plan_id).ok
      THEN IF ~PlanPriceIs(RAG_ADDON_PLANS, invoice.plan_id.plan_id,
                           _amount_from_total(total_amount, currency))
             THEN "plan_mismatch" ELSE "go"
    ELSE IF invoice.plan_id.plan_id \notin DOMAIN PERSONAL_PLANS
      THEN "plan_mismatch" ELSE "go"

\* the ledger table of the invoice's category
LedgerOf(invoice) ==
    IF parse_group_plan_key(invoice.plan_id).ok THEN group_subscriptions
    ELSE IF parse_rag_plan_key(invoice.plan_id).ok THEN rag_subscriptions
    ELSE purchases

\* the write transaction of the invoice's category, with the arguments the handler passes
PaymentWrite(invoice, from_user, charge, start_ts) ==
    IF parse_group_plan_key(invoice.plan_id).ok
      THEN LET plan == GROUP_PLANS[invoice.plan_id.plan_id]
           IN  GroupWrite(invoice.invoice_id, charge, invoice.plan_id.group_id,
                          plan.id, plan.stars, start_ts, EndTs(plan, start_ts))
    ELSE IF parse_rag_plan_key(invoice.plan_id).ok
      THEN LET plan == RAG_ADDON_PLANS[invoice.plan_id.plan_id]
           IN  RagWrite(invoice.invoice_id, charge, invoice.plan_id.group_id,
                        plan.id, plan.stars, start_ts, EndTs(plan, start_ts))
    ELSE LET plan == PERSONAL_PLANS[invoice.plan_id.plan_id]
         IN  PersonalWrite(invoice.invoice_id, charge, from_user, plan.stars, plan.resolves)

\* PaymentDbCall whose group branch also credits the payer with a resolve
PaymentDbCall_GroupCredits(invoice, from_user, charge) ==
    IF parse_group_plan_key(invoice.plan_id).ok
      THEN LET plan == GROUP_PLANS[invoice.plan_id.plan_id]
               res == process_group_invoice_payment(invoice.invoice_id, charge,
                   invoice.plan_id.group_id, plan.id, plan.stars, now, EndTs(plan, now))
           IN  IF res.status = "processed"
                 THEN [res EXCEPT !.users = AddResolves(ensure_user_row(users, from_user), from_user, 1)]
                 ELSE res
    ELSE IF parse_rag_plan_key(invoice.plan_id).ok
      THEN LET plan == RAG_ADDON_PLANS[invoice.plan_id.plan_id]
           IN  process_rag_invoice_payment(invoice.invoice_id, charge,
                   invoice.plan_id.group_id, plan.id, plan.stars, now, EndTs(plan, now))
    ELSE LET plan == PERSONAL_PLANS[invoice.plan_id.plan_id]
         IN  process_invoice_payment(invoice.invoice_id, charge, from_user,
                 plan.stars, plan.resolves)

\* the db call of the invoice's category, with start_ts = int(time.time())
PaymentDbCall(invoice, from_user, charge) ==
    IF parse_group_plan_key(invoice.plan_id).ok
      THEN LET plan == GROUP_PLANS[invoice.plan_id.plan_id]
           IN  process_group_invoice_payment(invoice.invoice_id, charge,
                   invoice.plan_id.group_id, plan.id, plan.stars, now, EndTs(plan, now))
    ELSE IF parse_rag_plan_key(invoice.plan_id).ok
      THEN LET plan == RAG_ADDON_PLANS[invoice.plan_id.plan_id]
           IN  process_rag_invoice_payment(invoice.invoice_id, charge,
                   invoice.plan_id.group_id, plan.id, plan.stars, now, EndTs(plan, now))
    ELSE LET plan == PERSONAL_PLANS[invoice.plan_id.plan_id]
         IN  process_invoice_payment(invoice.invoice_id, charge, from_user,
                 plan.stars, plan.resolves)

\* the handler's name for what a db call answered
DbReason(status) ==
    IF status = "processed" THEN "db_processed"
    ELSE IF status = "duplicate" THEN "db_duplicate"
    ELSE IF status = "error" THEN "db_error"
    ELSE "db_invalid"

\* the message answered, by class: "Payment already processed!" is duplicate,
\* the success text is processed, the except branch is error, the rest invalid
PaymentOutcome(reason) ==
    CASE reason \in {"already_paid", "db_duplicate"} -> "duplicate"
      [] reason = "db_processed" -> "processed"
      [] reason = "db_error" -> "error"
      [] OTHER -> "invalid"

\* PaymentResult that voids the invoice when the amount paid is not its amount
PaymentResult_VoidOnMismatch(payload, from_user, total_amount, currency, charge) ==
    LET invoice == get_invoice(payload)
        gate == PaymentGate(invoice, from_user, total_amount, currency)
    IN  IF gate = "amount_mismatch"
          THEN [Unchanged(gate) EXCEPT
                  !.invoices = {IF r.invoice_id = payload
                                  THEN [r EXCEPT !.status = "void"] ELSE r : r \in invoices}]
        ELSE IF gate # "go" THEN [Unchanged("none") EXCEPT !.status = gate]
        ELSE IF parse_rag_plan_key(invoice.plan_id).ok
                /\ ~group_subscription_active(invoice.plan_id.group_id)
          THEN Unchanged("no_subscription")
        ELSE LET res == PaymentDbCall(invoice, from_user, charge)
             IN  [res EXCEPT !.status = DbReason(res.status)]

\* the whole of successful_payment: the branch that answers and what the db holds after
PaymentResult(payload, from_user, total_amount, currency, charge) ==
    LET invoice == get_invoice(payload)
        gate == PaymentGate(invoice, from_user, total_amount, currency)
    IN  IF gate # "go" THEN [Unchanged("none") EXCEPT !.status = gate]
        ELSE IF parse_rag_plan_key(invoice.plan_id).ok
                /\ ~group_subscription_active(invoice.plan_id.group_id)
          THEN Unchanged("no_subscription")
        ELSE LET res == PaymentDbCall(invoice, from_user, charge)
             IN  [res EXCEPT !.status = DbReason(res.status)]

PaymentArgs(payload, from_user, total_amount, currency, charge) ==
    [invoice_id |-> payload, from_user |-> from_user, total_amount |-> total_amount,
     currency |-> currency, charge |-> charge]

InPaidLog(args) == \E k \in 1..Len(paidLog) : paidLog[k] = args

successful_payment(payload, from_user, total_amount, currency, charge) ==
    \E res \in {PaymentResult(payload, from_user, total_amount, currency, charge)} :
    LET args == PaymentArgs(payload, from_user, total_amount, currency, charge)
    IN  /\ invoices' = res.invoices
        /\ users' = res.users
        /\ purchases' = res.purchases
        /\ group_subscriptions' = res.group_subscriptions
        /\ rag_subscriptions' = res.rag_subscriptions
        /\ last' = [op |-> "successful_payment",
                    outcome |-> PaymentOutcome(res.status), reason |-> res.status,
                    message |-> "", repeat |-> InPaidLog(args)]
        /\ paidLog' = IF PaymentOutcome(res.status) = "processed"
                        THEN Append(paidLog, args) ELSE paidLog
        /\ UNCHANGED <<now, groups, proc, textVars>>

\* the clock moves on to a later instant
Tick ==
    /\ \E t \in TimePoints : t > now /\ now' = t
    /\ last' = NoAnswer
    /\ UNCHANGED <<dbVars, paidLog, proc, textVars>>

BuyPersonal == \E u \in Buyers, p \in PersonalOffers, ids \in IdAttempts : buy_handler(u, p, ids)
BuyGroup ==
    \E u \in Buyers, g \in Groups, p \in GroupOffers, ids \in IdAttempts :
        groupadmin_buy_group(u, g, p, ids)
BuyRag ==
    \E u \in Buyers, g \in Groups, p \in RagOffers, ids \in IdAttempts :
        groupadmin_buy_rag(u, g, p, ids)
PreCheckout ==
    \E i \in Payloads, u \in Users, f \in PaidForms :
        pre_checkout(i, u, f.total_amount, f.currency)
SuccessfulPayment ==
    \E i \in Payloads, u \in Users, f \in PaidForms, ch \in ChargeIds :
        successful_payment(i, u, f.total_amount, f.currency, ch)

Next == Tick \/ BuyPersonal \/ BuyGroup \/ BuyRag \/ PreCheckout \/ SuccessfulPayment

Spec == Init /\ [][Next]_vars

(***************************************************************************)
(* successful_payment run by several worker processes on one database:     *)
(* each SELECT is its own read, the UPDATE opens the write transaction     *)
(* that the commit (or the rollback) at the end of _conn closes.           *)
(***************************************************************************)
ConcForms == {[currency |-> "XTR", total_amount |-> 50],
              [currency |-> "XTR", total_amount |-> 150]}
ConcCharges == {"chg-1", "chg-2"}

Finish(p, reason) == [proc EXCEPT ![p].pc = "done", ![p].status = reason]
Goto(p, label) == [proc EXCEPT ![p].pc = label]

\* the update arrives at a worker
PayStart(p, payload, from_user, total_amount, currency, charge) ==
    /\ proc[p].pc = "idle"
    /\ proc' = [proc EXCEPT ![p] =
                  [Idle EXCEPT !.pc = "read", !.invoice_id = payload,
                               !.from_user = from_user, !.total_amount = total_amount,
                               !.currency = currency, !.charge = charge]]
    /\ UNCHANGED <<now, dbVars, last, paidLog, textVars>>

\* db.get_invoice and the checks on the row it returned
PayRead(p) ==
    /\ proc[p].pc = "read"
    /\ LET invoice == get_invoice(proc[p].invoice_id)
           gate == PaymentGate(invoice, proc[p].from_user, proc[p].total_amount,
                               proc[p].currency)
       IN  proc' = IF gate # "go" THEN Finish(p, gate)
                   ELSE IF parse_rag_plan_key(invoice.plan_id).ok THEN Goto(p, "sub")
                   ELSE [proc EXCEPT ![p].pc = "sel_invoice", ![p].start_ts = now]
    /\ UNCHANGED <<now, dbVars, last, paidLog, textVars>>

\* db.group_subscription_active of the add-on branch
PaySub(p) ==
    /\ proc[p].pc = "sub"
    /\ proc' = IF group_subscription_active(get_invoice(proc[p].invoice_id).plan_id.group_id)
                 THEN [proc EXCEPT ![p].pc = "sel_invoice", ![p].start_ts = now]
                 ELSE Finish(p, "no_subscription")
    /\ UNCHANGED <<now, dbVars, last, paidLog, textVars>>

\* the empty charge id test and SELECT 1 FROM invoices WHERE telegram_charge_id = ?
PaySelInvoice(p) ==
    /\ proc[p].pc = "sel_invoice"
    /\ proc' = IF proc[p].charge = "" THEN Finish(p, "db_invalid")
               ELSE IF ChargeOnInvoice(proc[p].charge) THEN Finish(p, "db_duplicate")
               ELSE Goto(p, "sel_ledger")
    /\ UNCHANGED <<now, dbVars, last, paidLog, textVars>>

\* SELECT 1 FROM <ledger table> WHERE transaction_id = ?
PaySelLedger(p) ==
    /\ proc[p].pc = "sel_ledger"
    /\ proc' = IF ChargeInLedger(LedgerOf(get_invoice(proc[p].invoice_id)), proc[p].charge)
                 THEN Finish(p, "db_duplicate")
                 ELSE Goto(p, "sel_status")
    /\ UNCHANGED <<now, dbVars, last, paidLog, textVars>>

\* SELECT status FROM invoices WHERE invoice_id = ?
PaySelStatus(p) ==
    /\ proc[p].pc = "sel_status"
    /\ proc' = IF InvoiceIsCreated(proc[p].invoice_id) THEN Goto(p, "write")
               ELSE Finish(p, "db_invalid")
    /\ UNCHANGED <<now, dbVars, last, paidLog, textVars>>

\* the write transaction: conditional UPDATE, ledger insert, balance, commit
PayWrite(p) ==
    /\ proc[p].pc = "write"
    /\ \E res \in {PaymentWrite(get_invoice(proc[p].invoice_id), proc[p].from_user,
                                proc[p].charge, proc[p].start_ts)} :
          /\ invoices' = res.invoices
          /\ users' = res.users
          /\ purchases' = res.purchases
          /\ group_subscriptions' = res.group_subscriptions
          /\ rag_subscriptions' = res.rag_subscriptions
          /\ proc' = Finish(p, DbReason(res.status))
          /\ paidLog' = IF res.status = "processed"
                          THEN Append(paidLog,
                                 PaymentArgs(proc[p].invoice_id, proc[p].from_user,
                                             proc[p].total_amount, proc[p].currency,
                                             proc[p].charge))
                          ELSE paidLog
    /\ UNCHANGED <<now, groups, last, textVars>>

\* the handler has answered and the worker takes the next update
PayReturn(p) ==
    /\ proc[p].pc = "done"
    /\ proc' = [proc EXCEPT ![p] = Idle]
    /\ UNCHANGED <<now, dbVars, last, paidLog, textVars>>

ConcStart ==
    \E p \in Procs, i \in InvoiceIds, u \in Buyers, f \in ConcForms, ch \in ConcCharges :
        PayStart(p, i, u, f.total_amount, f.currency, ch)
ConcRead == \E p \in Procs : PayRead(p)
ConcSub == \E p \in Procs : PaySub(p)
ConcSelInvoice == \E p \in Procs : PaySelInvoice(p)
ConcSelLedger == \E p \in Procs : PaySelLedger(p)
ConcSelStatus == \E p \in Procs : PaySelStatus(p)
ConcWrite == \E p \in Procs : PayWrite(p)
ConcReturn == \E p \in Procs : PayReturn(p)

NextConc ==
    \/ BuyPersonal \/ BuyGroup \/ BuyRag
    \/ ConcStart \/ ConcRead \/ ConcSub \/ ConcSelInvoice \/ ConcSelLedger
    \/ ConcSelStatus \/ ConcWrite \/ ConcReturn

SpecConc == Init /\ [][NextConc]_vars

(***************************************************************************)
(* Group subscription windows: group plans with and without a duration are *)
(* bought and confirmed while the clock runs past the ends of the windows. *)
(***************************************************************************)
\* how far along TimeLine the clock may advance while windows are observed
MaxSubClock == 7
SubTimePoints == {TimeLine[k] : k \in 1..MaxSubClock}
SubOffers == {"group_monthly", "group_charter"}
SubForms == {[currency |-> "XTR", total_amount |-> 150],
             [currency |-> "XTR", total_amount |-> 4000]}

SubTick ==
    /\ \E t \in SubTimePoints : t > now /\ now' = t
    /\ last' = NoAnswer
    /\ UNCHANGED <<dbVars, paidLog, proc, textVars>>

SubBuy ==
    \E u \in Buyers, g \in Groups, p \in SubOffers, ids \in IdAttempts :
        groupadmin_buy_group(u, g, p, ids)
SubPay ==
    \E i \in InvoiceIds, u \in Buyers, f \in SubForms, ch \in ConcCharges :
        successful_payment(i, u, f.total_amount, f.currency, ch)

NextSub == SubTick \/ SubBuy \/ SubPay

SpecSub == Init /\ [][NextSub]_vars

(***************************************************************************)
(* Storage failures: a db call of a handler raises, DB._conn rolls its      *)
(* transaction back and the handler's except branch answers                *)
(***************************************************************************)
\* the storage operations of successful_payment, in the order it runs them:
\* db.get_invoice, db.group_subscription_active (add-on invoices), and inside
\* process_*_invoice_payment the connection, the SELECTs, the statements of the
\* write transaction and the commit; db.get_user follows the commit of a
\* personal payment
PaymentFaults == {"get_invoice", "group_subscription_active", "connect", "select",
                  "write", "commit", "get_user"}

\* the storage operations of pre_checkout: db.get_invoice,
\* db.group_subscription_active (add-on invoices), db.ensure_user / db.ensure_group
PreCheckoutFaults == {"get_invoice", "group_subscription_active", "ensure"}

\* whether successful_payment with these arguments gets as far as the operation
PaymentReaches(fault, payload, from_user, total_amount, currency, charge) ==
    LET invoice == get_invoice(payload)
        gate == PaymentGate(invoice, from_user, total_amount, currency)
        res == PaymentResult(payload, from_user, total_amount, currency, charge)
        called == res.status \in {"db_processed", "db_duplicate", "db_invalid", "db_error"}
    IN  CASE fault = "get_invoice" -> TRUE
          [] fault = "group_subscription_active" ->
               gate = "go" /\ parse_rag_plan_key(invoice.plan_id).ok
          [] fault \in {"connect", "commit"} -> called
          [] fault = "select" -> called /\ charge # ""
          [] fault = "write" -> res.status = "db_processed"
          [] fault = "get_user" ->
               res.status = "db_processed" /\ invoice.plan_id.category = "personal"
          [] OTHER -> FALSE

\* PaymentResultUnder with a connection in autocommit: when a statement of the
\* write transaction raises, the UPDATE of the invoice before it stays
PaymentResultUnder_Autocommit(fault, payload, from_user, total_amount, currency, charge) ==
    LET res == PaymentResult(payload, from_user, total_amount, currency, charge)
    IN  IF ~PaymentReaches(fault, payload, from_user, total_amount, currency, charge)
          THEN res
        ELSE IF fault = "get_user" THEN [res EXCEPT !.status = "storage_error"]
        ELSE IF fault = "write"
          THEN [Unchanged("storage_error") EXCEPT !.invoices = MarkPaid(payload, charge)]
        ELSE Unchanged("storage_error")

\* successful_payment when the named storage operation raises: up to the commit
\* the rollback of _conn leaves every table as it was; db.get_user raises after
\* the commit; either way the except branch answers
PaymentResultUnder(fault, payload, from_user, total_amount, currency, charge) ==
    LET res == PaymentResult(payload, from_user, total_amount, currency, charge)
    IN  IF ~PaymentReaches(fault, payload, from_user, total_amount, currency, charge)
          THEN res
        ELSE IF fault = "get_user" THEN [res EXCEPT !.status = "storage_error"]
        ELSE Unchanged("storage_error")

\* the message class of the except branch next to those of PaymentOutcome
FaultOutcome(reason) ==
    IF reason = "storage_error" THEN "error" ELSE PaymentOutcome(reason)

\* the update a worker handled last, and the storage operation that raised in it
Handled(payload, from_user, total_amount, currency, charge, fault) ==
    [proc EXCEPT !["p1"] =
        [Idle EXCEPT !.pc = "done", !.invoice_id = payload, !.from_user = from_user,
                     !.total_amount = total_amount, !.currency = currency,
                     !.charge = charge, !.status = fault]]

successful_payment_under(fault, payload, from_user, total_amount, currency, charge) ==
    \E res \in {PaymentResultUnder(fault, payload, from_user, total_amount, currency, charge)} :
    LET args == PaymentArgs(payload, from_user, total_amount, currency, charge)
    IN  /\ invoices' = res.invoices
        /\ users' = res.users
        /\ purchases' = res.purchases
        /\ group_subscriptions' = res.group_subscriptions
        /\ rag_subscriptions' = res.rag_subscriptions
        /\ last' = [op |-> "successful_payment",
                    outcome |-> FaultOutcome(res.status), reason |-> res.status,
                    message |-> "", repeat |-> InPaidLog(args)]
        /\ paidLog' = IF FaultOutcome(res.status) = "processed"
                        THEN Append(paidLog, args) ELSE paidLog
        /\ proc' = IF res.status = "storage_error"
                      THEN Handled(payload, from_user, total_amount, currency, charge, fault)
                      ELSE [p \in Procs |-> Idle]
        /\ UNCHANGED <<now, groups, textVars>>

\* whether pre_checkout with these arguments gets as far as the operation
PreCheckoutReaches(fault, payload, from_user, total_amount, currency) ==
    LET invoice == get_invoice(payload)
        reason == PreCheckoutReason(invoice, from_user, total_amount, currency)
    IN  CASE fault = "get_invoice" -> TRUE
          [] fault = "group_subscription_active" ->
               /\ reason \in {"ok", "no_subscription"}
               /\ parse_rag_plan_key(invoice.plan_id).ok
          [] fault = "ensure" -> reason = "ok"
          [] OTHER -> FALSE

\* the except branch of pre_checkout answering ok=True
PreCheckoutExcept_Accept == [outcome |-> "accept", message |-> ""]

\* the except branch of pre_checkout: answer(ok=False, error_message=...)
PreCheckoutExcept == [outcome |-> "reject", message |-> ERROR_REJECT]

\* what pre_checkout answers when the named storage operation raises
PreCheckoutAnswerUnder(fault, payload, from_user, total_amount, currency) ==
    LET reason == PreCheckoutReason(get_invoice(payload), from_user, total_amount, currency)
    IN  IF PreCheckoutReaches(fault, payload, from_user, total_amount, currency)
          THEN [op |-> "pre_checkout", outcome |-> PreCheckoutExcept.outcome,
                reason |-> "storage_error", message |-> PreCheckoutExcept.message,
                repeat |-> FALSE]
          ELSE [op |-> "pre_checkout",
                outcome |-> IF reason = "ok" THEN "accept" ELSE "reject",
                reason |-> reason, message |-> PreCheckoutMessage(reason),
                repeat |-> FALSE]

pre_checkout_under(fault, payload, from_user, total_amount, currency) ==
    IF PreCheckoutReaches(fault, payload, from_user, total_amount, currency)
      THEN /\ last' = PreCheckoutAnswerUnder(fault, payload, from_user, total_amount, currency)
           /\ proc' = Handled(payload, from_user, total_amount, currency, "", fault)
           /\ UNCHANGED <<now, dbVars, paidLog, textVars>>
      ELSE /\ fault = "none"
           /\ \E reason \in {PreCheckoutReason(get_invoice(payload), from_user,
                                                total_amount, currency)} :
                 /\ last' = PreCheckoutAnswerUnder(fault, payload, from_user,
                                                   total_amount, currency)
                 /\ groups' = IF reason = "ok" /\ get_invoice(payload).plan_id.category
                                                    \in {"group", "rag"}
                                THEN ensure_group_row(groups, get_invoice(payload).plan_id.group_id)
                                ELSE groups
                 /\ users' = IF reason = "ok" /\ get_invoice(payload).plan_id.category
                                                    = "personal"
                               THEN ensure_user_row(users, get_invoice(payload).user_id)
                               ELSE users
                 /\ proc' = [p \in Procs |-> Idle]
                 /\ UNCHANGED <<now, invoices, ledgerVars, paidLog, textVars>>

FaultPay ==
    \E fault \in PaymentFaults \cup {"none"}, i \in InvoiceIds, u \in Buyers,
       f \in ConcForms, ch \in ConcCharges :
        successful_payment_under(fault, i, u, f.total_amount, f.currency, ch)
FaultPreCheckout ==
    \E fault \in PreCheckoutFaults \cup {"none"}, i \in InvoiceIds, u \in Buyers,
       f \in ConcForms :
        pre_checkout_under(fault, i, u, f.total_amount, f.currency)

\* the clock of the runs with storage failures
MaxFaultClock == 2
FaultTick ==
    /\ \E k \in 1..MaxFaultClock : TimeLine[k] > now /\ now' = TimeLine[k]
    /\ last' = NoAnswer
    /\ UNCHANGED <<dbVars, paidLog, proc, textVars>>

NextFault == FaultTick \/ BuyPersonal \/ BuyGroup \/ BuyRag \/ FaultPreCheckout \/ FaultPay

SpecFault == Init /\ [][NextFault]_vars

(***************************************************************************)
(* Text requests (on_text_input): paid resolves and the free daily          *)
(* stabilize.  The handlers run as tasks of one asyncio event loop and the  *)
(* db calls are synchronous, so a handler runs alone from one await to the  *)
(* next; only the clock moves between two synchronous db calls.             *)
(***************************************************************************)
\* the instants of the runs with text requests and the most requests they answer
MaxFreeClock == 3
MaxInteractions == 3

\* the goals a user may have chosen: none, the free one, a paid-only one
Goals == {"", "stabilize", "clarify"}

\* date.today(), as the number of the day
Today == now \div SECONDS_PER_DAY

\* can_use_free_today answering True whatever free_used_date says
can_use_free_today_Always(user_id) == TRUE

\* can_use_free_today: free_used_date differs from today (NULL differs too)
can_use_free_today(user_id) == free_used_date[user_id] # Today

\* mark_free_used_today: UPDATE users SET free_used_date = today
mark_free_used_today(user_id) == [free_used_date EXCEPT ![user_id] = Today]

\* consume_paid_resolve by an UPDATE without AND resolves_remaining > 0
consume_paid_resolve_Unguarded(tbl, user_id) ==
    [ensure_user_row(tbl, user_id) EXCEPT ![user_id].resolves_remaining = @ - 1]

\* consume_paid_resolve: _ensure_user_conn, then UPDATE users SET resolves_remaining
\* = resolves_remaining - 1 WHERE user_id = ? AND resolves_remaining > 0
consume_paid_resolve(tbl, user_id) ==
    IF ensure_user_row(tbl, user_id)[user_id].resolves_remaining > 0
      THEN [ensure_user_row(tbl, user_id) EXCEPT ![user_id].resolves_remaining = @ - 1]
      ELSE ensure_user_row(tbl, user_id)

\* cursor.rowcount == 1 of that UPDATE: a row was decremented
consume_answer(tbl, user_id) ==
    consume_paid_resolve(tbl, user_id) # ensure_user_row(tbl, user_id)

\* set_retry_flags: UPDATE retry_flags SET last_resolve_was_paid = ?, free_retry_available = ?
set_retry_flags(user_id, last_paid, free_retry) ==
    [retry_flags EXCEPT ![user_id] =
        [last_resolve_was_paid |-> last_paid, free_retry_available |-> free_retry]]

\* no handler is between two synchronous calls: the event loop can start a step
LoopFree == \A q \in Procs : proc[q].pc # "marking"

TextAnswer(outcome) == [NoAnswer EXCEPT !.op = "on_text_input", !.outcome = outcome]

\* a request being served: the user, how it is served, the day that was marked
Serving(p, label, user_id, how) ==
    [proc EXCEPT ![p] = [Idle EXCEPT !.pc = label, !.from_user = user_id,
                                     !.status = how, !.start_ts = Today]]

\* on_text_input from its start to the first await or to can_use_free_today
on_text_input(p, user_id, goal) ==
    /\ LoopFree
    /\ proc[p].pc = "idle"
    /\ Len(interactions) + Cardinality({q \in Procs : proc[q].pc # "idle"}) < MaxInteractions
    /\ LET rows == ensure_user_row(users, user_id)
       IN  IF goal = ""
             THEN /\ users' = rows
                  /\ last' = TextAnswer("choose_goal")
                  /\ UNCHANGED <<proc, retry_flags, consumed>>
           ELSE IF rows[user_id].resolves_remaining > 0 /\ consume_answer(rows, user_id)
             THEN /\ users' = consume_paid_resolve(rows, user_id)
                  /\ retry_flags' = set_retry_flags(user_id, TRUE, TRUE)
                  /\ consumed' = [consumed EXCEPT ![user_id] = @ + 1]
                  /\ last' = TextAnswer("paid")
                  /\ proc' = Serving(p, "llm", user_id, "paid")
           ELSE IF goal = "stabilize" /\ can_use_free_today(user_id)
             THEN /\ users' = rows
                  /\ last' = TextAnswer("checked")
                  /\ proc' = Serving(p, "marking", user_id, "free")
                  /\ UNCHANGED <<retry_flags, consumed>>
           ELSE /\ users' = rows
                /\ last' = TextAnswer("no_resolves")
                /\ UNCHANGED <<proc, retry_flags, consumed>>
    /\ UNCHANGED <<now, invoices, groups, ledgerVars, paidLog, free_used_date, interactions,
                   user_cache, handled>>

\* db.mark_free_used_today, the call right after can_use_free_today, and the
\* set_retry_flags(last_paid=False, free_retry=False) that follows it
on_text_input_mark(p) ==
    /\ proc[p].pc = "marking"
    /\ free_used_date' = mark_free_used_today(proc[p].from_user)
    /\ retry_flags' = set_retry_flags(proc[p].from_user, FALSE, FALSE)
    /\ proc' = Serving(p, "llm", proc[p].from_user, "free")
    /\ last' = TextAnswer("free")
    /\ UNCHANGED <<now, dbVars, paidLog, interactions, consumed, user_cache, handled>>

\* the responses arrived: db.log_interaction and the answer
on_text_input_answer(p) ==
    /\ LoopFree
    /\ proc[p].pc = "llm"
    /\ interactions' = Append(interactions,
          [user_id |-> proc[p].from_user, used_paid |-> proc[p].status = "paid",
           day |-> proc[p].start_ts])
    /\ proc' = [proc EXCEPT ![p] = Idle]
    /\ last' = TextAnswer("answered")
    /\ UNCHANGED <<now, dbVars, paidLog, free_used_date, retry_flags, consumed,
                   user_cache, handled>>

\* an await of the serving branch raised: nothing is logged
on_text_input_raise(p) ==
    /\ LoopFree
    /\ proc[p].pc = "llm"
    /\ proc' = [proc EXCEPT ![p] = Idle]
    /\ last' = TextAnswer("raised")
    /\ UNCHANGED <<now, dbVars, paidLog, textVars>>

FreeTick ==
    /\ \E k \in 1..MaxFreeClock : TimeLine[k] > now /\ now' = TimeLine[k]
    /\ last' = NoAnswer
    /\ UNCHANGED <<dbVars, paidLog, proc, textVars>>

TextInput == \E p \in Procs, u \in Users, g \in Goals : on_text_input(p, u, g)
TextMark == \E p \in Procs : on_text_input_mark(p)
TextAnswered == \E p \in Procs : on_text_input_answer(p)
TextRaised == \E p \in Procs : on_text_input_raise(p)
\* how a user comes to paid resolves: one invoice for personal_monthly, paid in full
TextBuy ==
    /\ LoopFree
    /\ \E u \in Buyers : buy_handler(u, "personal_monthly", [k \in 1..3 |-> "inv-a"])
TextPay ==
    /\ LoopFree
    /\ \E u \in Buyers : successful_payment("inv-a", u, 50, "XTR", "chg-1")

NextFree ==
    \/ FreeTick \/ TextInput \/ TextMark \/ TextAnswered \/ TextRaised
    \/ TextBuy \/ TextPay

SpecFree == Init /\ [][NextFree]_vars

(***************************************************************************)
(* A database that an earlier price list left behind: invoices.amount is    *)
(* stored per row, pricing.py is read anew by every release                 *)
(***************************************************************************)
\* created invoices of user 42 from before the price list changed:
\* personal_monthly at 40, group_monthly at 100, and a plan since removed
LegacyInvoices ==
    {[invoice_id |-> "inv-a", user_id |-> 42, plan_id |-> key.plan, amount |-> key.amount,
      currency |-> "XTR", status |-> "created", created_at |-> 0,
      telegram_charge_id |-> NULL] :
       key \in {[plan |-> build_personal_plan_key("personal_monthly"), amount |-> 40],
                [plan |-> build_group_plan_key("group_monthly", -100), amount |-> 100],
                [plan |-> build_personal_plan_key("personal_weekly"), amount |-> 40]}}

LegacyForms == {[currency |-> "XTR", total_amount |-> 40],
                [currency |-> "XTR", total_amount |-> 50],
                [currency |-> "XTR", total_amount |-> 100]}

InitLegacy ==
    /\ now = 0
    /\ \E r \in LegacyInvoices : invoices = {r}
    /\ users = [u \in Users |-> [exists |-> u = 42, resolves_remaining |-> 0]]
    /\ groups = {}
    /\ purchases = <<>>
    /\ group_subscriptions = <<>>
    /\ rag_subscriptions = <<>>
    /\ last = NoAnswer
    /\ paidLog = <<>>
    /\ proc = [p \in Procs |-> Idle]
    /\ free_used_date = [u \in Users |-> NULL_TS]
    /\ interactions = <<>>
    /\ retry_flags = [u \in Users |-> NoFlags]
    /\ consumed = [u \in Users |-> 0]
    /\ user_cache = [u \in Users |-> NoEntry]
    /\ handled = <<>>

LegacyPreCheckout ==
    \E i \in InvoiceIds, u \in Buyers, f \in LegacyForms :
        pre_checkout(i, u, f.total_amount, f.currency)
LegacyPay ==
    \E i \in InvoiceIds, u \in Buyers, f \in LegacyForms, ch \in ConcCharges :
        successful_payment(i, u, f.total_amount, f.currency, ch)

NextLegacy == Tick \/ BuyPersonal \/ LegacyPreCheckout \/ LegacyPay

SpecLegacy == InitLegacy /\ [][NextLegacy]_vars

(***************************************************************************)
(* Paid resolves spent by on_text_input and retry_apply_handler.  Each       *)
(* handler reads the user with db.get_user (retry_apply_handler the flags   *)
(* with db.get_retry_flags as well) and decides on what it read; every db    *)
(* call is a transaction of its own.  SpecUse lets workers that share the    *)
(* database interleave between the reads and the decision while payments     *)
(* are confirmed; SpecRetry runs the handlers as tasks of one event loop,    *)
(* where no other task runs between the reads and the first await.           *)
(***************************************************************************)
TEXT == "on_text_input"
RETRY == "retry_apply_handler"

\* a handler has read and not yet decided
Deciding == \E q \in Procs : proc[q].pc = "deciding"

RequestAnswer(handler, outcome, reason) ==
    [NoAnswer EXCEPT !.op = handler, !.outcome = outcome, !.reason = reason]

\* db.get_user, db.get_retry_flags and the test of the goal and the last text
\* (ready: both are set); the goal asked for has no free daily allowance
request_read(p, user_id, handler, ready) ==
    /\ proc[p].pc = "idle"
    /\ Len(interactions) + Cardinality({q \in Procs : proc[q].pc # "idle"}) < MaxInteractions
    /\ users' = ensure_user_row(users, user_id)
    /\ IF ready
         THEN /\ proc' = [proc EXCEPT ![p] =
                    [Idle EXCEPT !.pc = "deciding", !.from_user = user_id,
                                 !.status = handler,
                                 !.resolves_remaining =
                                     ensure_user_row(users, user_id)[user_id].resolves_remaining,
                                 !.free_retry =
                                     /\ handler = RETRY
                                     /\ retry_flags[user_id].last_resolve_was_paid
                                     /\ retry_flags[user_id].free_retry_available]]
              /\ last' = RequestAnswer(handler, "read", "")
         ELSE /\ UNCHANGED proc
              /\ last' = RequestAnswer(handler, "start_again", "")
    /\ UNCHANGED <<now, invoices, groups, ledgerVars, paidLog, textVars>>

\* request_decide that writes the balance it read, less one
request_decide_ReadModifyWrite(p) ==
    /\ proc[p].pc = "deciding"
    /\ LET user_id == proc[p].from_user
           handler == proc[p].status
       IN  IF proc[p].free_retry
             THEN /\ retry_flags' = set_retry_flags(user_id, TRUE, FALSE)
                  /\ last' = RequestAnswer(handler, "free_retry", "")
                  /\ proc' = Serving(p, "llm", user_id, "free")
                  /\ UNCHANGED <<users, consumed>>
           ELSE IF proc[p].resolves_remaining > 0
             THEN /\ users' = [users EXCEPT ![user_id] =
                                  [exists |-> TRUE,
                                   resolves_remaining |-> proc[p].resolves_remaining - 1]]
                  /\ consumed' = [consumed EXCEPT ![user_id] = @ + 1]
                  /\ retry_flags' = set_retry_flags(user_id, TRUE, handler = TEXT)
                  /\ last' = RequestAnswer(handler, "paid", "")
                  /\ proc' = Serving(p, "llm", user_id, "paid")
           ELSE /\ last' = RequestAnswer(handler, "no_resolves", "balance")
                /\ proc' = [proc EXCEPT ![p] = Idle]
                /\ UNCHANGED <<users, consumed, retry_flags>>
    /\ UNCHANGED <<now, invoices, groups, ledgerVars, paidLog, free_used_date, interactions,
                   user_cache, handled>>

\* request_decide that leaves free_retry_available set after the free retry
request_decide_KeepsFlag(p) ==
    /\ proc[p].pc = "deciding"
    /\ LET user_id == proc[p].from_user
           handler == proc[p].status
       IN  IF proc[p].free_retry
             THEN /\ retry_flags' = set_retry_flags(user_id, TRUE, TRUE)
                  /\ last' = RequestAnswer(handler, "free_retry", "")
                  /\ proc' = Serving(p, "llm", user_id, "free")
                  /\ UNCHANGED <<users, consumed>>
           ELSE IF proc[p].resolves_remaining > 0 /\ consume_answer(users, user_id)
             THEN /\ users' = consume_paid_resolve(users, user_id)
                  /\ consumed' = [consumed EXCEPT ![user_id] = @ + 1]
                  /\ retry_flags' = set_retry_flags(user_id, TRUE, handler = TEXT)
                  /\ last' = RequestAnswer(handler, "paid", "")
                  /\ proc' = Serving(p, "llm", user_id, "paid")
           ELSE /\ users' = IF proc[p].resolves_remaining > 0
                              THEN consume_paid_resolve(users, user_id) ELSE users
                /\ last' = RequestAnswer(handler, "no_resolves",
                              IF proc[p].resolves_remaining > 0 THEN "consume" ELSE "balance")
                /\ proc' = [proc EXCEPT ![p] = Idle]
                /\ UNCHANGED <<consumed, retry_flags>>
    /\ UNCHANGED <<now, invoices, groups, ledgerVars, paidLog, free_used_date, interactions,
                   user_cache, handled>>

\* the handler from its reads to the first await: the free retry of
\* retry_apply_handler, else the test of the balance read and
\* db.consume_paid_resolve, followed by db.set_retry_flags
request_decide(p) ==
    /\ proc[p].pc = "deciding"
    /\ LET user_id == proc[p].from_user
           handler == proc[p].status
       IN  IF proc[p].free_retry
             THEN /\ retry_flags' = set_retry_flags(user_id, TRUE, FALSE)
                  /\ last' = RequestAnswer(handler, "free_retry", "")
                  /\ proc' = Serving(p, "llm", user_id, "free")
                  /\ UNCHANGED <<users, consumed>>
           ELSE IF proc[p].resolves_remaining > 0 /\ consume_answer(users, user_id)
             THEN /\ users' = consume_paid_resolve(users, user_id)
                  /\ consumed' = [consumed EXCEPT ![user_id] = @ + 1]
                  /\ retry_flags' = set_retry_flags(user_id, TRUE, handler = TEXT)
                  /\ last' = RequestAnswer(handler, "paid", "")
                  /\ proc' = Serving(p, "llm", user_id, "paid")
           ELSE /\ users' = IF proc[p].resolves_remaining > 0
                              THEN consume_paid_resolve(users, user_id) ELSE users
                /\ last' = RequestAnswer(handler, "no_resolves",
                              IF proc[p].resolves_remaining > 0 THEN "consume" ELSE "balance")
                /\ proc' = [proc EXCEPT ![p] = Idle]
                /\ UNCHANGED <<consumed, retry_flags>>
    /\ UNCHANGED <<now, invoices, groups, ledgerVars, paidLog, free_used_date, interactions,
                   user_cache, handled>>

NextUse ==
    \/ \E p \in Procs, u \in Users, h \in {TEXT, RETRY}, ready \in BOOLEAN :
          request_read(p, u, h, ready)
    \/ \E p \in Procs : request_decide(p)
    \/ \E p \in Procs : on_text_input_answer(p)
    \/ \E p \in Procs : on_text_input_raise(p)
    \/ \E u \in Buyers, ids \in IdAttempts : buy_handler(u, "personal_monthly", ids)
    \/ \E i \in InvoiceIds, u \in Buyers, ch \in ConcCharges :
          successful_payment(i, u, 50, "XTR", ch)

SpecUse == Init /\ [][NextUse]_vars

NextRetry ==
    \/ ~Deciding /\ LoopFree /\ \E p \in Procs, u \in Users, ready \in BOOLEAN :
                                   request_read(p, u, RETRY, ready)
    \/ \E p \in Procs : request_decide(p)
    \/ ~Deciding /\ \E p \in Procs, u \in Users, g \in Goals : on_text_input(p, u, g)
    \/ \E p \in Procs : on_text_input_mark(p)
    \/ ~Deciding /\ \E p \in Procs : on_text_input_answer(p)
    \/ ~Deciding /\ \E p \in Procs : on_text_input_raise(p)
    \/ ~Deciding /\ TextBuy
    \/ ~Deciding /\ TextPay

SpecRetry == Init /\ [][NextRetry]_vars

(***************************************************************************)
(* RateLimitMiddleware (app/middlewares.py): a counter per user in a        *)
(* TTLCache, in front of every message handler                              *)
(***************************************************************************)
MaxRateClock == 4
MaxRateMessages == 7

\* Settings.rate_limit_per_user, TTLCache(ttl=60) and the window `elapsed < 60`
rate_limit_per_user == 5
RATE_TTL == 60
RATE_WINDOW == 60

\* the instants at which messages arrive, in order
RateTimeLine == <<0, 1, 59, 60, 61, 120>>

\* user_cache.get(user_id, default): the entry while it is live, that is for
\* RATE_TTL seconds after it was stored last, else the default of this message
cache_get(user_id) ==
    IF now < user_cache[user_id].expires
      THEN [count |-> user_cache[user_id].count,
            first_request |-> user_cache[user_id].first_request]
      ELSE [count |-> 0, first_request |-> now]

\* user_cache[user_id] = user_data
cache_set(user_id, user_data) ==
    [user_cache EXCEPT ![user_id] =
        [count |-> user_data.count, first_request |-> user_data.first_request,
         expires |-> now + RATE_TTL]]

RateAnswer(outcome, reason) ==
    [NoAnswer EXCEPT !.op = "RateLimitMiddleware", !.outcome = outcome, !.reason = reason]

\* RateLimitMiddleware.__call__ for a message of user_id, up to the handler call
RateLimitMiddleware(user_id) ==
    /\ Len(handled) < MaxRateMessages
    /\ LET user_data == cache_get(user_id)
           elapsed == now - user_data.first_request
           full == user_data.count >= rate_limit_per_user
           stored == IF full THEN [count |-> 1, first_request |-> now]
                             ELSE [user_data EXCEPT !.count = @ + 1]
       IN  IF full /\ elapsed < RATE_WINDOW
             THEN /\ last' = RateAnswer("rate_limit", "")
                  /\ UNCHANGED <<user_cache, handled>>
             ELSE /\ user_cache' = cache_set(user_id, stored)
                  /\ handled' = Append(handled, [user_id |-> user_id, at |-> now])
                  /\ last' = RateAnswer("handled", IF full THEN "restart" ELSE "count")
    /\ UNCHANGED <<now, dbVars, paidLog, proc, free_used_date, interactions,
                   retry_flags, consumed>>

\* time.time() moves on before the next message
RateTick ==
    /\ \E k \in 1..MaxRateClock : RateTimeLine[k] > now /\ now' = RateTimeLine[k]
    /\ last' = NoAnswer
    /\ UNCHANGED <<dbVars, paidLog, proc, textVars>>

NextRate ==
    \/ RateTick
    \/ \E u \in Users : RateLimitMiddleware(u)

SpecRate == Init /\ [][NextRate]_vars

(***************************************************************************)
(* Properties                                                              *)
(***************************************************************************)
\* the ledger rows, over the three ledger tables, that carry a charge id
LedgerRowsWith(charge) ==
    Cardinality({k \in 1..Len(purchases) : purchases[k].transaction_id = charge})
    + Cardinality({k \in 1..Len(group_subscriptions) :
                      group_subscriptions[k].transaction_id = charge})
    + Cardinality({k \in 1..Len(rag_subscriptions) :
                      rag_subscriptions[k].transaction_id = charge})

RECURSIVE SumResolves(_, _, _)
\* the sum of resolves_added over the first n purchases rows of a user
SumResolves(tbl, user_id, n) ==
    IF n = 0 THEN 0
    ELSE SumResolves(tbl, user_id, n - 1)
         + (IF tbl[n].user_id = user_id THEN tbl[n].resolves_added ELSE 0)

\* the rows of invoices after the step
InvoiceRowsNext(invoice_id) == {r \in invoices' : r.invoice_id = invoice_id}

\* a db call's value leaves every table as it is
SameDb(res) ==
    /\ res.invoices = invoices
    /\ res.users = users
    /\ res.purchases = purchases
    /\ res.group_subscriptions = group_subscriptions
    /\ res.rag_subscriptions = rag_subscriptions

\* the paid amount in whole units of its currency
WholeUnits(form) ==
    IF form.currency = "XTR" THEN form.total_amount ELSE form.total_amount \div 100

\* C1: once a successful_payment has been answered "processed", every later
\* successful_payment with the same invoice, payer, amount, currency and charge id
\* is answered "duplicate" and changes no table; no argument tuple is processed
\* twice, the processed call left exactly one ledger row with its charge id, and
\* every balance is the sum of the resolves of the user's purchases rows.
C1_ConfirmIdempotent ==
    /\ last.repeat => last.outcome = "duplicate"
    /\ \A k \in 1..Len(paidLog) :
          LET a == paidLog[k]
              res == PaymentResult(a.invoice_id, a.from_user, a.total_amount,
                                   a.currency, a.charge)
          IN  /\ PaymentOutcome(res.status) = "duplicate"
              /\ SameDb(res)
              /\ LedgerRowsWith(a.charge) = 1
              /\ \A j \in 1..Len(paidLog) : paidLog[j] = a => j = k
    /\ \A u \in Users :
          users[u].resolves_remaining = SumResolves(purchases, u, Len(purchases))

\* a repeated call with the arguments of a processed one has been answered "duplicate"
C1_Witness ==
    /\ last.op = "successful_payment"
    /\ last.repeat
    /\ last.outcome = "duplicate"
    /\ Len(paidLog) = 1
    /\ Len(purchases) = 1
    /\ users[42].resolves_remaining = 1

\* C2: for one invoice, of the successful_payment calls that several workers run
\* in any interleaving at most one is answered "processed"; a call that lost to
\* it is answered "invalid" or "duplicate" (its charge id not being held by another
\* invoice); a paid invoice has exactly one ledger row and an unpaid one none, and
\* every balance is the sum of the resolves of the user's purchases rows.
C2_ExactlyOnceConcurrent ==
    /\ \A p, q \in Procs :
          (p # q /\ proc[p].pc = "done" /\ proc[q].pc = "done"
             /\ proc[p].invoice_id = proc[q].invoice_id
             /\ proc[q].status = "db_processed") =>
            /\ proc[p].status # "db_processed"
            /\ ~ChargeUniqueViolation(proc[p].invoice_id, proc[p].charge) =>
                 PaymentOutcome(proc[p].status) \in {"invalid", "duplicate"}
    /\ \A i \in InvoiceIds :
          Cardinality({k \in 1..Len(paidLog) : paidLog[k].invoice_id = i}) <= 1
    /\ \A r \in invoices :
          /\ r.status = "paid" =>
               /\ LedgerRowsWith(r.telegram_charge_id) = 1
               /\ \E k \in 1..Len(paidLog) :
                     /\ paidLog[k].invoice_id = r.invoice_id
                     /\ paidLog[k].charge = r.telegram_charge_id
          /\ r.status = "created" =>
               \A k \in 1..Len(paidLog) : paidLog[k].invoice_id # r.invoice_id
    /\ Len(purchases) + Len(group_subscriptions) + Len(rag_subscriptions)
         = Cardinality({r \in invoices : r.status = "paid"})
    /\ \A u \in Users :
          users[u].resolves_remaining = SumResolves(purchases, u, Len(purchases))

\* two workers confirmed one invoice with different charge ids: one won, one lost
C2_Witness ==
    /\ proc["p1"].pc = "done" /\ proc["p2"].pc = "done"
    /\ proc["p1"].invoice_id = proc["p2"].invoice_id
    /\ proc["p1"].charge # proc["p2"].charge
    /\ proc["p1"].status = "db_processed"
    /\ proc["p2"].status = "db_invalid"
    /\ Len(purchases) + Len(group_subscriptions) + Len(rag_subscriptions) = 1

\* C3: a charge id is on at most one invoice row and on at most one ledger row,
\* counted over the three ledger tables together.
C3_ChargeIdUnique ==
    \A ch \in ChargeIds :
        /\ Cardinality({r \in invoices : r.telegram_charge_id = ch}) <= 1
        /\ LedgerRowsWith(ch) <= 1

\* both invoices are paid, under different charge ids, after a worker that
\* presented the other invoice's charge id was turned away by the UNIQUE index
C3_Witness ==
    /\ \E r1, r2 \in invoices :
          /\ r1.invoice_id # r2.invoice_id
          /\ r1.status = "paid" /\ r2.status = "paid"
    /\ \E p \in Procs : proc[p].pc = "done" /\ proc[p].status = "db_error"

\* C4: an invoice row is never deleted; a paid row never changes again; a created
\* row changes only to paid, in the step that also sets its charge id, and that
\* step is a successful_payment; no other column changes.
C4_InvoiceLifecycle ==
    [][\A i \in InvoiceIds :
         \A r \in InvoiceRows(i) :
            /\ InvoiceRowsNext(i) # {}
            /\ r.status = "paid" => InvoiceRowsNext(i) = {r}
            /\ r.status = "created" => r.telegram_charge_id = NULL
            /\ (r.status = "created" /\ InvoiceRowsNext(i) # {r}) =>
                 /\ last'.op = "successful_payment"
                 /\ \E ch \in ChargeIds \ {""} :
                       InvoiceRowsNext(i) =
                         {[r EXCEPT !.status = "paid", !.telegram_charge_id = ch]}]_vars

\* an invoice has been paid and carries the charge id of its confirmation
C4_Witness ==
    /\ last.op = "successful_payment"
    /\ last.outcome = "processed"
    /\ \E r \in invoices : r.status = "paid" /\ r.telegram_charge_id \in {"chg-1", "chg-2"}

\* C5: a step that answers a pre_checkout, accepting or rejecting, changes no
\* invoice, no ledger table and no balance; it may only create a missing users
\* row with balance 0 or a missing groups row.
C5_NoPreAuthMutation ==
    [][last'.op = "pre_checkout" =>
         /\ UNCHANGED <<invoices, ledgerVars>>
         /\ groups \subseteq groups'
         /\ \A v \in Users :
               /\ users'[v].resolves_remaining = users[v].resolves_remaining
               /\ users[v].exists => users'[v] = users[v]]_vars

\* an accepted pre_checkout for a payer who already holds a paid balance
C5_Witness ==
    /\ last.op = "pre_checkout"
    /\ last.outcome = "accept"
    /\ users[42].resolves_remaining > 0
    /\ \E r \in invoices : r.status = "created" /\ r.plan_id.category = "personal"

\* C6: a balance grows, and a purchases row appears, only in a successful_payment
\* answered "processed" that turns a created personal invoice to paid, and only
\* the balance of that invoice's payer grows.
C6_CreditsOnlyAfterPayment ==
    [][((\E v \in Users : users'[v].resolves_remaining > users[v].resolves_remaining)
          \/ purchases' # purchases) =>
         /\ last'.op = "successful_payment"
         /\ last'.outcome = "processed"
         /\ Len(purchases') = Len(purchases) + 1
         /\ \E r \in invoices :
               /\ r.status = "created"
               /\ r.plan_id.category = "personal"
               /\ InvoiceRowsNext(r.invoice_id) # {r}
               /\ \A v \in Users \ {r.user_id} :
                     users'[v].resolves_remaining = users[v].resolves_remaining]_vars

\* a personal invoice has been confirmed and the payer credited
C6_Witness ==
    /\ last.op = "successful_payment"
    /\ last.outcome = "processed"
    /\ Len(purchases) = 1
    /\ users[42].resolves_remaining = 1
    /\ users[7].resolves_remaining = 0

\* C7: an invoice older than INVOICE_TTL_SECONDS is rejected by pre_checkout and
\* is not processed by successful_payment, which then changes no table; an invoice
\* exactly INVOICE_TTL_SECONDS old is not turned away as expired by either.
C7_TtlEnforcement ==
    /\ last.reason = "expired" =>
         \E r \in invoices : now - r.created_at > INVOICE_TTL_SECONDS
    /\ \A i \in InvoiceIds, u \in Users, f \in PaidForms :
         \A r \in InvoiceRows(i) :
            LET reason == PreCheckoutReason(r, u, f.total_amount, f.currency)
            IN  /\ now - r.created_at > INVOICE_TTL_SECONDS => reason # "ok"
                /\ now - r.created_at <= INVOICE_TTL_SECONDS => reason # "expired"
                /\ \A ch \in ChargeIds :
                      LET res == PaymentResult(i, u, f.total_amount, f.currency, ch)
                      IN  /\ now - r.created_at > INVOICE_TTL_SECONDS =>
                                /\ PaymentOutcome(res.status) # "processed"
                                /\ SameDb(res)
                          /\ now - r.created_at <= INVOICE_TTL_SECONDS =>
                                res.status # "expired"

\* a never-paid invoice one second past its lifetime is turned away, while a
\* group invoice was confirmed at exactly INVOICE_TTL_SECONDS of age
C7_Witness ==
    /\ last.reason = "expired"
    /\ \E r \in invoices :
          r.status = "created" /\ now - r.created_at = INVOICE_TTL_SECONDS + 1
    /\ \E r \in invoices, k \in 1..Len(group_subscriptions) :
          /\ r.telegram_charge_id = group_subscriptions[k].transaction_id
          /\ group_subscriptions[k].start_ts - r.created_at = INVOICE_TTL_SECONDS

\* C8: successful_payment on a created, unexpired invoice, by its payer, with an
\* unused charge id and a paid amount (in the currency's whole units) other than
\* invoice.amount is answered "invalid" and changes no table.
C8_AmountBinding ==
    /\ (last.op = "successful_payment" /\ last.reason = "amount_mismatch") =>
         last.outcome = "invalid"
    /\ \A i \in InvoiceIds, u \in Users, f \in PaidForms, ch \in ChargeIds \ {""} :
         \A r \in InvoiceRows(i) :
            (/\ r.status = "created"
             /\ now - r.created_at <= INVOICE_TTL_SECONDS
             /\ r.user_id = u
             /\ LedgerRowsWith(ch) = 0
             /\ \A x \in invoices : x.telegram_charge_id # ch
             /\ WholeUnits(f) # r.amount) =>
               LET res == PaymentResult(i, u, f.total_amount, f.currency, ch)
               IN  /\ PaymentOutcome(res.status) = "invalid"
                   /\ SameDb(res)
                   /\ r.telegram_charge_id = NULL

\* the payer's confirmation was turned away for its amount and the invoice is still open
C8_Witness ==
    /\ last.op = "successful_payment"
    /\ last.reason = "amount_mismatch"
    /\ last.outcome = "invalid"
    /\ \E r \in invoices : r.status = "created" /\ r.telegram_charge_id = NULL
    /\ Len(purchases) = 0

\* C9: successful_payment with a currency other than invoice.currency is answered
\* "invalid" and changes no table, whatever the amount.
C9_CurrencyBinding ==
    \A i \in InvoiceIds, u \in Users, f \in PaidForms, ch \in ChargeIds :
       \A r \in InvoiceRows(i) :
          f.currency # r.currency =>
            LET res == PaymentResult(i, u, f.total_amount, f.currency, ch)
            IN  /\ PaymentOutcome(res.status) = "invalid"
                /\ SameDb(res)

\* C10: successful_payment on a created add-on invoice whose group has no row in
\* group_subscriptions that is active and unexpired is answered "invalid", leaves
\* the invoice created and inserts no add-on row.
C10_AddonNeedsSubscription ==
    /\ last.reason = "no_subscription" => last.outcome \in {"invalid", "reject"}
    /\ \A i \in InvoiceIds, u \in Users, f \in PaidForms, ch \in ChargeIds :
         \A r \in InvoiceRows(i) :
            (/\ r.plan_id.category = "rag"
             /\ r.status = "created"
             /\ ~\E k \in 1..Len(group_subscriptions) :
                    /\ group_subscriptions[k].group_id = r.plan_id.group_id
                    /\ group_subscriptions[k].status = "active"
                    /\ (group_subscriptions[k].end_ts = NULL_TS
                          \/ group_subscriptions[k].end_ts > now)) =>
               LET res == PaymentResult(i, u, f.total_amount, f.currency, ch)
               IN  /\ PaymentOutcome(res.status) = "invalid"
                   /\ SameDb(res)

\* the add-on invoice was issued while the subscription ran, the subscription
\* lapsed, and the confirmation was turned away for it
C10_Witness ==
    /\ last.op = "successful_payment"
    /\ last.reason = "no_subscription"
    /\ Len(group_subscriptions) = 1
    /\ group_subscriptions[1].end_ts <= now
    /\ Len(rag_subscriptions) = 0
    /\ \E r \in invoices : r.plan_id.category = "rag" /\ r.status = "created"
                           /\ now - r.created_at <= INVOICE_TTL_SECONDS

\* the catalog of the plan key's category lists the plan at this price
CatalogPriceIs(key, amount) ==
    CASE key.category = "personal" ->
           key.plan_id \in DOMAIN PERSONAL_PLANS /\ PERSONAL_PLANS[key.plan_id].stars = amount
      [] key.category = "group" ->
           key.plan_id \in DOMAIN GROUP_PLANS /\ GROUP_PLANS[key.plan_id].stars = amount
      [] key.category = "rag" ->
           key.plan_id \in DOMAIN RAG_ADDON_PLANS /\ RAG_ADDON_PLANS[key.plan_id].stars = amount
      [] OTHER -> FALSE

\* some row of the group in group_subscriptions is active and ends after now, or never
HasOpenRow(group_id) ==
    \E k \in 1..Len(group_subscriptions) :
        /\ group_subscriptions[k].group_id = group_id
        /\ group_subscriptions[k].status = "active"
        /\ (group_subscriptions[k].end_ts = NULL_TS \/ group_subscriptions[k].end_ts > now)

\* C11: pre_checkout accepts exactly when the invoice exists, is created, belongs
\* to the claimed payer, is at most INVOICE_TTL_SECONDS old, has the claimed
\* currency and (in whole units) the claimed amount, its plan is in the catalog at
\* that price and, for an add-on invoice, the group's subscription is active.
C11_AuthorizeDecision ==
    /\ last.op = "pre_checkout" =>
         /\ last.outcome \in {"accept", "reject"}
         /\ last.outcome = "accept" <=> last.reason = "ok"
    /\ \A i \in Payloads, u \in Users, f \in PaidForms :
         LET inv == get_invoice(i)
         IN  (PreCheckoutReason(inv, u, f.total_amount, f.currency) = "ok") <=>
               /\ InvoiceRows(i) # {}
               /\ inv.status = "created"
               /\ inv.user_id = u
               /\ now - inv.created_at <= INVOICE_TTL_SECONDS
               /\ f.currency = inv.currency
               /\ WholeUnits(f) = inv.amount
               /\ CatalogPriceIs(inv.plan_id, inv.amount)
               /\ inv.plan_id.category = "rag" => HasOpenRow(inv.plan_id.group_id)

\* the pre_checkout of an add-on invoice was accepted while the subscription ran
C11_Witness ==
    /\ last.op = "pre_checkout"
    /\ last.outcome = "accept"
    /\ Cardinality(invoices) = 2
    /\ \A r \in invoices : r.status = "created" => r.plan_id.category = "rag"
    /\ \E r \in invoices : r.status = "created"

\* C12: an invoice that a successful_payment has processed is rejected by every
\* pre_checkout, whatever the payer, amount and currency claimed and whatever the time.
C12_NoSecondAuthorize ==
    \A k \in 1..Len(paidLog), u \in Users, f \in PaidForms :
        /\ InvoiceRows(paidLog[k].invoice_id) # {}
        /\ PreCheckoutReason(get_invoice(paidLog[k].invoice_id), u,
                             f.total_amount, f.currency) # "ok"

\* a pre_checkout for a processed invoice has been rejected
C12_Witness ==
    /\ last.op = "pre_checkout"
    /\ last.outcome = "reject"
    /\ last.reason = "already_paid"
    /\ Len(paidLog) = 1
    /\ Cardinality(invoices) = 1

\* C13: every rejection by pre_checkout carries the one generic error_message,
\* whichever check failed.
C13_UniformReject ==
    (last.op = "pre_checkout" /\ last.outcome = "reject") =>
        last.message = GENERIC_REJECT

\* C14: successful_payment with a charge id that is already on an invoice row or
\* on a ledger row is answered "duplicate" and changes no table, whatever the
\* invoice, payer, amount, currency and age presented with it.
C14_PrimaryDuplicateCheck ==
    \A i \in Payloads, u \in Users, f \in PaidForms, ch \in ChargeIds \ {""} :
       ((\E r \in invoices : r.telegram_charge_id = ch) \/ LedgerRowsWith(ch) > 0) =>
          LET res == PaymentResult(i, u, f.total_amount, f.currency, ch)
          IN  /\ PaymentOutcome(res.status) = "duplicate"
              /\ SameDb(res)

\* C15: successful_payment with a charge id not seen before, for an invoice that
\* is already paid, is answered "invalid" and changes no table.
C15_LostRaceInvalid ==
    \A i \in InvoiceIds, u \in Users, f \in PaidForms, ch \in ChargeIds \ {""} :
       \A r \in InvoiceRows(i) :
          (/\ r.status = "paid"
           /\ LedgerRowsWith(ch) = 0
           /\ \A x \in invoices : x.telegram_charge_id # ch) =>
             LET res == PaymentResult(i, u, f.total_amount, f.currency, ch)
             IN  /\ PaymentOutcome(res.status) = "invalid"
                 /\ SameDb(res)

\* C16: successful_payment with the empty charge id is answered "invalid" and
\* changes no table, whatever the invoice, payer, amount and currency.
C16_EmptyChargeInvalid ==
    \A i \in Payloads, u \in Users, f \in PaidForms :
       LET res == PaymentResult(i, u, f.total_amount, f.currency, "")
       IN  /\ PaymentOutcome(res.status) = "invalid"
           /\ SameDb(res)

\* C17: a successful_payment answered "processed" turns one created invoice to
\* paid; when that invoice is personal, the step appends exactly one purchases row
\* with the payer, the price, the plan's resolves and the charge id now on the
\* invoice, adds exactly the plan's resolves to the payer's balance and leaves
\* every other balance as it was.
C17_PersonalEffect ==
    [][/\ (last'.op = "successful_payment" /\ last'.outcome = "processed") =>
            \E r \in invoices : r.status = "created" /\ InvoiceRowsNext(r.invoice_id) # {r}
       /\ \A r \in invoices :
            (/\ r.plan_id.category = "personal"
             /\ r.status = "created"
             /\ InvoiceRowsNext(r.invoice_id) # {r}) =>
               \E paid \in InvoiceRowsNext(r.invoice_id) :
                  LET n == PERSONAL_PLANS[r.plan_id.plan_id].resolves
                  IN  /\ last'.outcome = "processed"
                      /\ purchases' = Append(purchases,
                            [user_id |-> r.user_id, stars_amount |-> r.amount,
                             resolves_added |-> n,
                             transaction_id |-> paid.telegram_charge_id])
                      /\ \A k \in 1..Len(purchases) :
                            purchases[k].transaction_id # paid.telegram_charge_id
                      /\ users'[r.user_id].exists
                      /\ users'[r.user_id].resolves_remaining
                           = users[r.user_id].resolves_remaining + n
                      /\ \A v \in Users \ {r.user_id} :
                            users'[v].resolves_remaining = users[v].resolves_remaining]_vars

\* payer 42 paid 50 for personal_monthly: the balance went from 0 to 1
C17_Witness ==
    /\ last.op = "successful_payment"
    /\ last.outcome = "processed"
    /\ Len(purchases) = 1
    /\ purchases[1].user_id = 42
    /\ purchases[1].stars_amount = 50
    /\ purchases[1].resolves_added = 1
    /\ purchases[1].transaction_id \in {"chg-1", "chg-2"}
    /\ users[42] = [exists |-> TRUE, resolves_remaining |-> 1]
    /\ users[7].resolves_remaining = 0

\* the row of group_subscriptions that a step appended for the invoice row r
\* that the step turned from created to paid
AppendedFor(r, row) ==
    /\ r.status = "created"
    /\ r.plan_id.category = "group"
    /\ InvoiceRowsNext(r.invoice_id) # {r}
    /\ group_subscriptions' = Append(group_subscriptions, row)
    /\ \E paid \in InvoiceRowsNext(r.invoice_id) :
          row.transaction_id = paid.telegram_charge_id

\* row k of group_subscriptions starts after every other row of its group
OnlyLatest(k) ==
    \A j \in 1..Len(group_subscriptions) :
        (j # k /\ group_subscriptions[j].group_id = group_subscriptions[k].group_id) =>
           group_subscriptions[j].start_ts < group_subscriptions[k].start_ts

C19_CharterNeverEnds ==
    /\ [](\A k \in 1..Len(group_subscriptions) :
            LET row == group_subscriptions[k]
            IN  (row.plan_id = "group_charter" /\ OnlyLatest(k)) =>
                  get_group_subscription_info(row.group_id) =
                     {[active |-> TRUE, end_ts |-> NULL_TS, plan_id |-> "group_charter"]})
    /\ [][\A r \in invoices :
            (/\ r.plan_id.category = "group"
             /\ r.status = "created"
             /\ InvoiceRowsNext(r.invoice_id) # {r}
             /\ GROUP_PLANS[r.plan_id.plan_id].duration_days = NULL_TS) =>
               \E row \in {group_subscriptions'[Len(group_subscriptions')]} :
                  /\ AppendedFor(r, row)
                  /\ row.status = "active"
                  /\ row.start_ts = now
                  /\ row.end_ts = NULL_TS]_vars

\* a charter confirmed at 0 is still reported active, without an end, 31 days later
C19_Witness ==
    /\ Len(group_subscriptions) = 1
    /\ group_subscriptions[1].plan_id = "group_charter"
    /\ group_subscriptions[1].start_ts = 0
    /\ now >= 31 * 86400
    /\ get_group_subscription_info(-100) =
          {[active |-> TRUE, end_ts |-> NULL_TS, plan_id |-> "group_charter"]}

C21_ProjectionsAgree ==
    \A g \in Groups :
       \A info \in get_group_subscription_info(g) :
          info.active = group_subscription_active(g)

\* the row that a renewal added: row k of group_subscriptions starts after every
\* other row of its group, inside the window of an earlier row
IsRenewal(k) ==
    /\ OnlyLatest(k)
    /\ \E j \in 1..Len(group_subscriptions) :
          /\ j # k
          /\ group_subscriptions[j].group_id = group_subscriptions[k].group_id
          /\ RowOpen(group_subscriptions[j], group_subscriptions[k].start_ts)

\* C22: a group invoice confirmed at t1 inside an earlier open window of the
\* group appends a row with start_ts = t1 and end_ts = t1 + d * 86400, and from
\* then on both projections report the entitlement of that row alone, even when
\* its end_ts is before the end of the earlier window.
C22_RenewalReplaces ==
    /\ [](\A k \in 1..Len(group_subscriptions) :
            LET row == group_subscriptions[k]
            IN  IsRenewal(k) =>
                  /\ row.end_ts = EndTs(GROUP_PLANS[row.plan_id], row.start_ts)
                  /\ get_group_subscription_info(row.group_id) = {InfoOfRow(row, now)}
                  /\ group_subscription_active(row.group_id) = RowOpen(row, now))
    /\ [][\A r \in invoices :
            (/\ r.plan_id.category = "group"
             /\ r.status = "created"
             /\ InvoiceRowsNext(r.invoice_id) # {r}
             /\ group_subscription_active(r.plan_id.group_id)) =>
               \E row \in {group_subscriptions'[Len(group_subscriptions')]} :
                  /\ AppendedFor(r, row)
                  /\ row.start_ts = now
                  /\ row.end_ts = EndTs(GROUP_PLANS[r.plan_id.plan_id], now)]_vars

\* C23: whether a group is entitled to the add-on features depends on the rows of
\* the add-on table only: a group whose add-on window is open is entitled, also
\* after its base subscription has ended, and a group without an open add-on
\* window is not.
C23_AddonIndependent ==
    \A g \in Groups :
       require_group_rag_entitlement(g) = group_rag_subscription_active(g)

\* the plan keys and prices the issuing handlers pass to _create_invoice_record
IssueCalls ==
    {[key |-> build_personal_plan_key(p), amount |-> PERSONAL_PLANS[p].stars] :
        p \in PersonalOffers}
    \cup {[key |-> build_group_plan_key(p, g), amount |-> GROUP_PLANS[p].stars] :
        p \in GroupOffers, g \in Groups}
    \cup {[key |-> build_rag_plan_key(p, g), amount |-> RAG_ADDON_PLANS[p].stars] :
        p \in RagOffers, g \in Groups}

\* C24: issuing an invoice tries at most three generated ids; an id that is taken
\* leaves the invoice that has it unchanged and counts as a failed attempt; the
\* first free id gets exactly one new row, created, without charge id, with the
\* payer, plan key, price and currency of the call; when all three ids are taken
\* the call fails and no row is added.
C24_Issuance ==
    /\ [](\A u \in Buyers, call \in IssueCalls, ids \in IdAttempts :
            LET res == IssueResult(u, call.key, call.amount, "XTR", ids)
                free == {k \in 1..3 : InvoiceRows(ids[k]) = {}}
            IN  /\ \A r \in invoices : r \in res.invoices
                /\ free = {} => res.invoices = invoices /\ res.outcome = "failed"
                /\ free # {} =>
                     \E k \in free :
                        /\ \A j \in free : k <= j
                        /\ res.outcome = "issued" /\ res.reason = ids[k]
                        /\ res.invoices = invoices \cup
                              {[invoice_id |-> ids[k], user_id |-> u, plan_id |-> call.key,
                                amount |-> call.amount, currency |-> "XTR",
                                status |-> "created", created_at |-> now,
                                telegram_charge_id |-> NULL]}
                        /\ Cardinality(res.invoices) = Cardinality(invoices) + 1)
    /\ [][last'.op = "issue" =>
            /\ \A r \in invoices : r \in invoices'
            /\ last'.outcome \in {"issued", "failed"}
            /\ last'.outcome = "failed" => invoices' = invoices /\ invoices # {}
            /\ last'.outcome = "issued" =>
                 \E row \in invoices' :
                    /\ InvoiceRows(row.invoice_id) = {}
                    /\ invoices' = invoices \cup {row}
                    /\ row.invoice_id = last'.reason
                    /\ row.status = "created"
                    /\ row.telegram_charge_id = NULL
                    /\ row.created_at = now
                    /\ \E call \in IssueCalls :
                          row.plan_id = call.key /\ row.amount = call.amount]_vars

\* with one invoice stored, a call whose three ids all collided with it failed
C24_Witness ==
    /\ last.op = "issue"
    /\ last.outcome = "failed"
    /\ Cardinality(invoices) = 1

\* prices and amounts around the threshold of the pricing check
GuardStars == {50, 150, 999, 1000, 4000}
GuardAmounts == {50, 999, 1000, 5000}

\* C25: every stored invoice is in XTR and its amount is the catalog price of the
\* plan it names; _should_allow_xtr_amount refuses exactly an XTR amount of 1000
\* or more for a plan priced under 1000, and an issuing step adds a row only when
\* that check passes for the stored amount.
C25_PricingGuard ==
    /\ [](/\ \A r \in invoices :
               /\ r.currency = "XTR"
               /\ CatalogPriceIs(r.plan_id, r.amount)
          /\ \A s \in GuardStars, a \in GuardAmounts, cur \in {"XTR", "USD"} :
               _should_allow_xtr_amount(s, a, cur) <=>
                  ~(cur = "XTR" /\ s < 1000 /\ a >= 1000))
    /\ [][\A r \in {x \in invoices' : InvoiceRows(x.invoice_id) = {}} :
             LET price == CASE r.plan_id.category = "personal" ->
                                 PERSONAL_PLANS[r.plan_id.plan_id].stars
                            [] r.plan_id.category = "group" ->
                                 GROUP_PLANS[r.plan_id.plan_id].stars
                            [] r.plan_id.category = "rag" ->
                                 RAG_ADDON_PLANS[r.plan_id.plan_id].stars
             IN  /\ r.amount = price
                 /\ ~(r.currency = "XTR" /\ price < 1000 /\ r.amount >= 1000)
                 /\ last'.op = "issue"]_vars

\* invoices for a personal plan and for a group plan are stored at 50 and 150
C25_Witness ==
    /\ last.op = "issue"
    /\ last.outcome = "issued"
    /\ \E r \in invoices : r.plan_id.category = "personal" /\ r.amount = 50
    /\ \E r \in invoices : r.plan_id.category = "group" /\ r.amount = 150

\* C27: when a storage operation of successful_payment raises, at whatever point,
\* every table is as it was before the call (the invoice created, without charge
\* id, no ledger row, the balance unchanged) and the failure is answered; the same
\* call made again right after a failure in the write transaction or after it is
\* then answered processed.
C27_RetrySafe ==
    /\ [](\A fault \in PaymentFaults, i \in InvoiceIds, u \in Buyers,
             f \in ConcForms, ch \in ConcCharges :
            PaymentReaches(fault, i, u, f.total_amount, f.currency, ch) =>
               LET res == PaymentResultUnder(fault, i, u, f.total_amount, f.currency, ch)
               IN  /\ FaultOutcome(res.status) = "error"
                   /\ SameDb(res))
    /\ [][LET w == proc["p1"]
          IN  (/\ last.op = "successful_payment"
               /\ last.reason = "storage_error"
               /\ w.status \in {"write", "get_user"}
               /\ successful_payment_under("none", w.invoice_id, w.from_user,
                                           w.total_amount, w.currency, w.charge)) =>
                 last'.outcome = "processed"]_vars

\* C28: a pre_checkout in which a storage operation raises answers reject, never
\* accept, and a successful_payment in which one raises is never answered
\* processed; accept and processed are answered only by calls that ran to their end.
C28_FailClosed ==
    /\ \A fault \in PreCheckoutFaults, i \in InvoiceIds, u \in Buyers, f \in ConcForms :
          PreCheckoutReaches(fault, i, u, f.total_amount, f.currency) =>
             PreCheckoutAnswerUnder(fault, i, u, f.total_amount, f.currency).outcome
                = "reject"
    /\ \A fault \in PaymentFaults, i \in InvoiceIds, u \in Buyers,
          f \in ConcForms, ch \in ConcCharges :
          PaymentReaches(fault, i, u, f.total_amount, f.currency, ch) =>
             FaultOutcome(PaymentResultUnder(fault, i, u, f.total_amount,
                                             f.currency, ch).status) = "error"
    /\ last.reason = "storage_error" =>
          \/ last.op = "pre_checkout" /\ last.outcome = "reject"
          \/ last.op = "successful_payment" /\ last.outcome = "error"
    /\ last.outcome = "accept" => last.reason = "ok"
    /\ last.outcome = "processed" => last.reason = "db_processed"

\* db.ensure_user or db.ensure_group raised in a pre_checkout that had passed
\* every check: the answer was reject
C28_Witness ==
    /\ last.op = "pre_checkout"
    /\ last.reason = "storage_error"
    /\ last.outcome = "reject"
    /\ proc["p1"].status = "ensure"

\* the requests of a user that were served from the free allowance of a day:
\* those logged and those still waiting for their responses
FreeServes(user_id, day) ==
    Cardinality({k \in 1..Len(interactions) :
                    /\ interactions[k].user_id = user_id
                    /\ ~interactions[k].used_paid
                    /\ interactions[k].day = day})
    + Cardinality({p \in Procs :
                    /\ proc[p].pc = "llm"
                    /\ proc[p].from_user = user_id
                    /\ proc[p].status = "free"
                    /\ proc[p].start_ts = day})

\* C29: for every user and day, however the text requests follow or overlap each
\* other, at most one request is served from the free daily allowance; a request
\* that starts to be served when the day's allowance is used is served by
\* consuming one paid resolve, and without a paid resolve it is refused.
C29_OneFreePerDay ==
    /\ [](\A u \in Users, k \in 1..MaxFreeClock :
            FreeServes(u, TimeLine[k] \div SECONDS_PER_DAY) <= 1)
    /\ [][\A p \in Procs :
            LET u == proc'[p].from_user
            IN  (/\ proc[p].pc # "llm"
                 /\ proc'[p].pc = "llm"
                 /\ FreeServes(u, Today) >= 1) =>
                   /\ proc'[p].status = "paid"
                   /\ users[u].resolves_remaining >= 1
                   /\ users'[u].resolves_remaining = users[u].resolves_remaining - 1
                   /\ free_used_date' = free_used_date]_vars
    /\ [][(/\ last'.op = "on_text_input"
           /\ last'.outcome = "no_resolves") =>
             /\ UNCHANGED <<proc, free_used_date, interactions>>
             /\ \A u \in Users : users'[u].resolves_remaining = users[u].resolves_remaining]_vars

\* a user was served free and then, the same day, by a paid resolve; a third
\* request that day was refused
C29_Witness ==
    /\ Len(interactions) = 2
    /\ interactions[1].user_id = interactions[2].user_id
    /\ interactions[1].day = Today
    /\ interactions[2].day = Today
    /\ ~interactions[1].used_paid
    /\ interactions[2].used_paid
    /\ last.op = "on_text_input"
    /\ last.outcome = "no_resolves"
    /\ free_used_date[interactions[1].user_id] = Today
    /\ users[interactions[1].user_id].resolves_remaining = 0

IsPrefix(s, t) == Len(s) <= Len(t) /\ \A k \in 1..Len(s) : t[k] = s[k]

\* C31: no step updates or deletes a row of purchases, of group_subscriptions or
\* of the add-on table: after every step each table starts with the rows it held
\* before; a successful_payment answered "processed" adds exactly one ledger row,
\* and every other step adds none.
C31_LedgerAppendOnly ==
    [][/\ IsPrefix(purchases, purchases')
       /\ IsPrefix(group_subscriptions, group_subscriptions')
       /\ IsPrefix(rag_subscriptions, rag_subscriptions')
       /\ Len(purchases') + Len(group_subscriptions') + Len(rag_subscriptions')
            = Len(purchases) + Len(group_subscriptions) + Len(rag_subscriptions)
              + (IF last'.op = "successful_payment" /\ last'.outcome = "processed"
                   THEN 1 ELSE 0)]_vars

\* a second group subscription has been confirmed while the row of the first one
\* is still in the table, as it was written
C31_Witness ==
    /\ last.op = "successful_payment"
    /\ last.outcome = "processed"
    /\ Len(group_subscriptions) = 2
    /\ group_subscriptions[1].group_id = group_subscriptions[2].group_id
    /\ group_subscriptions[1].status = "active"
    /\ group_subscriptions[1].transaction_id # group_subscriptions[2].transaction_id

\* C32: under every interleaving of confirmed personal payments and of requests
\* that spend paid resolves, every balance is the sum of resolves_added over the
\* user's purchases rows less the consume_paid_resolve calls that answered True;
\* a processed payment adds the resolves of its new purchases row to the balance
\* as it stands, and a served paid request takes one from the balance as it
\* stands, whatever the handler read before.
C32_NoLostBalanceUpdate ==
    /\ [](\A u \in Users :
            users[u].resolves_remaining
              = SumResolves(purchases, u, Len(purchases)) - consumed[u])
    /\ [][(last'.op = "successful_payment" /\ last'.outcome = "processed") =>
            /\ Len(purchases') = Len(purchases) + 1
            /\ consumed' = consumed
            /\ \A u \in Users :
                  users'[u].resolves_remaining = users[u].resolves_remaining
                    + (IF purchases'[Len(purchases')].user_id = u
                         THEN purchases'[Len(purchases')].resolves_added ELSE 0)]_vars
    /\ [][(last'.op \in {TEXT, RETRY} /\ last'.outcome = "paid") =>
            /\ purchases' = purchases
            /\ \E u \in Users :
                  /\ consumed' = [consumed EXCEPT ![u] = @ + 1]
                  /\ users'[u].resolves_remaining = users[u].resolves_remaining - 1
                  /\ \A v \in Users \ {u} : users'[v] = users[v]]_vars

\* two personal invoices are paid and one resolve is spent while a worker still
\* holds the balance it read before the second payment was confirmed
C32_Witness ==
    /\ Len(purchases) = 2
    /\ consumed[42] = 1
    /\ users[42].resolves_remaining = 1
    /\ \E p \in Procs :
          /\ proc[p].pc = "deciding"
          /\ proc[p].from_user = 42
          /\ proc[p].resolves_remaining = 2

\* C35: no balance is ever negative; a request is served as paid only when the
\* balance is above 0 at the moment of the decrement, which takes exactly one;
\* a request that is refused changes no balance, and db.consume_paid_resolve
\* answers False only when the balance is 0: of the requests racing for a
\* balance, as many are served as there are resolves.
C35_BalanceNeverNegative ==
    /\ [](\A u \in Users : users[u].resolves_remaining >= 0 /\ consumed[u] >= 0)
    /\ [][(last'.op \in {TEXT, RETRY} /\ last'.outcome \in {"paid", "no_resolves"}) =>
            \E p \in Procs :
               /\ proc[p].pc = "deciding"
               /\ proc'[p].pc # "deciding"
               /\ IF last'.outcome = "paid"
                    THEN /\ users[proc[p].from_user].resolves_remaining > 0
                         /\ users'[proc[p].from_user].resolves_remaining
                              = users[proc[p].from_user].resolves_remaining - 1
                    ELSE /\ users' = users
                         /\ consumed' = consumed
                         /\ last'.reason = "consume" =>
                              users[proc[p].from_user].resolves_remaining = 0]_vars

\* two requests read a balance of 1; one was served, and the other one's
\* db.consume_paid_resolve answered False
C35_Witness ==
    /\ last.op \in {TEXT, RETRY}
    /\ last.outcome = "no_resolves"
    /\ last.reason = "consume"
    /\ Len(purchases) = 1
    /\ consumed[42] = 1
    /\ users[42].resolves_remaining = 0

\* the rows of the three ledger tables, each with the category of its table
LedgerRows ==
    {[category |-> "personal", transaction_id |-> purchases[k].transaction_id] :
        k \in 1..Len(purchases)}
    \cup {[category |-> "group", transaction_id |-> group_subscriptions[k].transaction_id] :
            k \in 1..Len(group_subscriptions)}
    \cup {[category |-> "rag", transaction_id |-> rag_subscriptions[k].transaction_id] :
            k \in 1..Len(rag_subscriptions)}

\* C33: in every state the database can be found in, also after a storage
\* operation of a confirmation raised, an invoice is paid if and only if exactly
\* one ledger row carries its charge id, that row is in the table of the
\* invoice's category, and every ledger row carries the charge id of a paid
\* invoice; an invoice that is not paid carries no charge id.
C33_PaidIffLedgerRow ==
    /\ \A r \in invoices :
          /\ r.status = "paid" <=> LedgerRowsWith(r.telegram_charge_id) = 1
          /\ r.status = "paid" =>
               /\ r.telegram_charge_id \notin {NULL, ""}
               /\ [category |-> r.plan_id.category,
                   transaction_id |-> r.telegram_charge_id] \in LedgerRows
          /\ r.status # "paid" => r.status = "created" /\ r.telegram_charge_id = NULL
    /\ \A row \in LedgerRows :
          \E r \in invoices :
             /\ r.status = "paid"
             /\ r.telegram_charge_id = row.transaction_id
             /\ r.plan_id.category = row.category

\* the write transaction of a confirmation raised and was rolled back: its
\* invoice is still created, next to an invoice that was paid before
C33_Witness ==
    /\ last.op = "successful_payment"
    /\ last.reason = "storage_error"
    /\ proc["p1"].pc = "done"
    /\ proc["p1"].status = "write"
    /\ get_invoice(proc["p1"].invoice_id).status = "created"
    /\ \E r \in invoices : r.status = "paid" /\ LedgerRowsWith(r.telegram_charge_id) = 1

\* C34: a successful_payment that is answered invalid or duplicate, whichever
\* check of the handler or of the db call turned it away, leaves every row of
\* invoices, the three ledger tables, every users row and the groups as they were.
C34_NonProcessedNoEffect ==
    [][(last'.op = "successful_payment" /\ last'.outcome \in {"invalid", "duplicate"}) =>
          /\ invoices' = invoices
          /\ purchases' = purchases
          /\ group_subscriptions' = group_subscriptions
          /\ rag_subscriptions' = rag_subscriptions
          /\ users' = users
          /\ groups' = groups
          /\ paidLog' = paidLog]_vars

\* a payment of an invoice that is already paid was answered duplicate while a
\* purchase and a group subscription are on the ledger and a resolve is credited
C34_Witness ==
    /\ last.op = "successful_payment"
    /\ last.outcome = "duplicate"
    /\ last.reason = "already_paid"
    /\ Len(purchases) = 1
    /\ Len(group_subscriptions) = 1
    /\ users[42].resolves_remaining = 1
    /\ \A r \in invoices : r.status = "paid"

\* C36: however two workers interleave, a charge id is on at most one paid
\* invoice and at most one successful_payment carrying it is answered processed;
\* when one call was processed, a call with the same charge id for another
\* invoice is not, and if it got as far as the db call and its invoice is still
\* created, it ended as duplicate or in the rolled-back error of the UNIQUE index.
C36_OneChargeOneInvoice ==
    /\ \A ch \in ConcCharges :
          /\ Cardinality({r \in invoices : r.status = "paid" /\ r.telegram_charge_id = ch}) <= 1
          /\ Cardinality({k \in 1..Len(paidLog) : paidLog[k].charge = ch}) <= 1
    /\ \A p, q \in Procs :
          (/\ p # q
           /\ proc[p].pc = "done" /\ proc[q].pc = "done"
           /\ proc[p].charge = proc[q].charge
           /\ proc[p].invoice_id # proc[q].invoice_id
           /\ proc[p].status = "db_processed") =>
             /\ proc[q].status # "db_processed"
             /\ (/\ proc[q].status \in {"db_duplicate", "db_invalid", "db_error"}
                 /\ get_invoice(proc[q].invoice_id).status = "created") =>
                   proc[q].status \in {"db_duplicate", "db_error"}

\* two workers confirmed two created invoices with one charge id: the first was
\* processed, the second passed every SELECT and was stopped by the UNIQUE index;
\* its invoice is still created and one ledger row exists
C36_Witness ==
    /\ proc["p1"].pc = "done" /\ proc["p2"].pc = "done"
    /\ proc["p1"].charge = proc["p2"].charge
    /\ proc["p1"].invoice_id # proc["p2"].invoice_id
    /\ proc["p1"].status = "db_processed"
    /\ proc["p2"].status = "db_error"
    /\ get_invoice(proc["p2"].invoice_id).status = "created"
    /\ Len(purchases) + Len(group_subscriptions) + Len(rag_subscriptions) = 1

\* C37: a successful_payment answered processed writes by the category of the
\* invoice it paid: a personal invoice adds one purchases row of the payer and
\* changes the payer's users row and no other, with both subscription tables
\* untouched; a group invoice adds one group_subscriptions row for the group
\* its key encodes and leaves users, purchases and the add-on table untouched;
\* an add-on invoice adds one add-on row for its group and nothing else.
C37_CategoryRouting ==
    [][(last'.op = "successful_payment" /\ last'.outcome = "processed") =>
          \E r \in invoices :
              /\ r.status = "created"
              /\ r \notin invoices'
              /\ groups' = groups
              /\ CASE r.plan_id.category = "personal" ->
                       /\ group_subscriptions' = group_subscriptions
                       /\ rag_subscriptions' = rag_subscriptions
                       /\ Len(purchases') = Len(purchases) + 1
                       /\ SubSeq(purchases', 1, Len(purchases)) = purchases
                       /\ purchases'[Len(purchases')].user_id = r.user_id
                       /\ \A u \in Users \ {r.user_id} : users'[u] = users[u]
                       /\ users'[r.user_id].resolves_remaining
                            = ensure_user_row(users, r.user_id)[r.user_id].resolves_remaining
                              + purchases'[Len(purchases')].resolves_added
                   [] r.plan_id.category = "group" ->
                       /\ purchases' = purchases
                       /\ rag_subscriptions' = rag_subscriptions
                       /\ users' = users
                       /\ Len(group_subscriptions') = Len(group_subscriptions) + 1
                       /\ SubSeq(group_subscriptions', 1, Len(group_subscriptions))
                            = group_subscriptions
                       /\ group_subscriptions'[Len(group_subscriptions')].group_id
                            = r.plan_id.group_id
                   [] OTHER ->
                       /\ r.plan_id.category = "rag"
                       /\ purchases' = purchases
                       /\ group_subscriptions' = group_subscriptions
                       /\ users' = users
                       /\ Len(rag_subscriptions') = Len(rag_subscriptions) + 1
                       /\ SubSeq(rag_subscriptions', 1, Len(rag_subscriptions))
                            = rag_subscriptions
                       /\ rag_subscriptions'[Len(rag_subscriptions')].group_id
                            = r.plan_id.group_id]_vars

\* a group invoice was just processed after a personal one: the ledger holds one
\* purchase and one group subscription, and the payer holds the one resolve bought
C37_Witness ==
    /\ last.op = "successful_payment"
    /\ last.outcome = "processed"
    /\ Len(purchases) = 1
    /\ Len(group_subscriptions) = 1
    /\ group_subscriptions[1].transaction_id = paidLog[Len(paidLog)].charge
    /\ users[purchases[1].user_id].resolves_remaining = 1

\* the worker whose request was decided in this step
Decided(p) == proc[p].pc = "deciding" /\ proc'[p].pc # "deciding"

\* C38: a retry is served without a resolve only when the user's last request
\* was served by a paid resolve and its free retry is still there, and serving
\* it takes the free retry away; the free retry comes back only with a text
\* request that consumes a paid resolve. Every other retry consumes exactly one
\* resolve or is refused and changes no balance and no flag, and a request
\* served by the free daily allowance leaves the user without a free retry.
C38_OneFreeRetryPerPaidResolve ==
    [][/\ (last'.op = RETRY /\ last'.outcome = "free_retry") =>
             \E p \in Procs :
                 /\ Decided(p)
                 /\ retry_flags[proc[p].from_user] =
                        [last_resolve_was_paid |-> TRUE, free_retry_available |-> TRUE]
                 /\ ~retry_flags'[proc[p].from_user].free_retry_available
                 /\ users' = users
                 /\ consumed' = consumed
       /\ \A u \in Users :
             (retry_flags'[u].free_retry_available /\ ~retry_flags[u].free_retry_available) =>
                 /\ last'.op = TEXT
                 /\ last'.outcome = "paid"
                 /\ consumed'[u] = consumed[u] + 1
                 /\ users'[u].resolves_remaining = users[u].resolves_remaining - 1
       /\ (last'.op = RETRY /\ last'.outcome = "paid") =>
             \E p \in Procs :
                 /\ Decided(p)
                 /\ consumed'[proc[p].from_user] = consumed[proc[p].from_user] + 1
                 /\ users'[proc[p].from_user].resolves_remaining
                      = users[proc[p].from_user].resolves_remaining - 1
                 /\ ~retry_flags'[proc[p].from_user].free_retry_available
       /\ (last'.op = RETRY /\ last'.outcome \in {"no_resolves", "start_again"}) =>
             /\ \A u \in Users : users'[u].resolves_remaining = users[u].resolves_remaining
             /\ retry_flags' = retry_flags
             /\ consumed' = consumed
             /\ \A p \in Procs : proc'[p].pc # "llm" \/ proc'[p] = proc[p]
       /\ (last'.op = TEXT /\ last'.outcome = "free") =>
             \E p \in Procs :
                 /\ proc[p].pc = "marking"
                 /\ retry_flags'[proc[p].from_user] = NoFlags]_vars

\* after a request served by a paid resolve and its free retry, both answered
\* and logged, a further retry of the user was refused for want of a resolve
C38_Witness ==
    /\ last.op = RETRY
    /\ last.outcome = "no_resolves"
    /\ retry_flags[42] = [last_resolve_was_paid |-> TRUE, free_retry_available |-> FALSE]
    /\ consumed[42] = 1
    /\ \E k \in 1..Len(interactions) :
          interactions[k].user_id = 42 /\ interactions[k].used_paid
    /\ \E k \in 1..Len(interactions) :
          interactions[k].user_id = 42 /\ ~interactions[k].used_paid
    /\ free_used_date[42] = NULL_TS

\* the messages of user_id passed to the handlers from time t on, for 60 seconds
PassedWithin(user_id, t) ==
    {j \in 1..Len(handled) :
        handled[j].user_id = user_id /\ handled[j].at >= t /\ handled[j].at < t + 60}

\* C39: for every user, the messages RateLimitMiddleware passed to the handlers
\* within any 60 seconds (counted from any one of them) are at most
\* rate_limit_per_user; a message that arrives when the count has reached the
\* limit and fewer than 60 seconds have passed since first_request is answered
\* with the rate-limit error and not handled; and a rejected message stores
\* nothing, so it extends neither the window nor the life of the entry.
C39_RateLimitBound ==
    /\ [](\A k \in 1..Len(handled) :
            Cardinality(PassedWithin(handled[k].user_id, handled[k].at))
                <= rate_limit_per_user)
    /\ [][/\ handled' # handled =>
               LET user_data == cache_get(handled'[Len(handled')].user_id)
               IN  ~(/\ user_data.count >= rate_limit_per_user
                     /\ now - user_data.first_request < 60)
           /\ (last'.op = "RateLimitMiddleware" /\ last'.outcome = "rate_limit") =>
               /\ user_cache' = user_cache
               /\ handled' = handled]_vars
====
